---- MODULE Spec2Model ----
(***************************************************************************)
(* Model of the voice-chat-ai browser client.                              *)
(*                                                                         *)
(*   Spec         GeminiLiveClient of src/src/lib/gemini.ts                *)
(*   SpecCapture  GeminiLiveClient of src/unnamed/part_003 (the variant    *)
(*                with microphone capture)                                 *)
(*   SpecParse    parseError of src/src/components/VoiceChat.tsx           *)
(*                                                                         *)
(* The host is single threaded: every callback and every continuation of   *)
(* an async function runs to its next await without interleaving, so each  *)
(* action below is one such run.  The vendor SDK and the Web Audio device  *)
(* are the environment: which transport event comes next, with which close *)
(* code, and whether a started buffer ever signals its end, are choices of *)
(* the environment.                                                        *)
(***************************************************************************)
EXTENDS Integers, Sequences, FiniteSets, TLC

\* ------------------------------------------------------------------ bounds
MaxSessions == 2      \* Transport Sessions of one client that are not yet closed
MaxChunks   == 2      \* audio chunks enqueued over a run
MaxWords    == 2      \* words of a raw error text
MaxMessages == 2      \* ChatMessages in the caller's list
MaxFetches  == 1      \* getApiConfig() calls in flight
MaxFrames   == 3      \* inbound frames a listening caller is followed over
MaxStarts   == 1      \* startAudioStream() calls awaiting getUserMedia
MaxReads    == 1      \* ondataavailable callbacks awaiting arrayBuffer()
MaxBytes    == 3      \* bytes of a buffer that is converted to base64 and back
MaxPending  == 2      \* request/response variant: sendText calls awaiting generateContent
MaxHistory  == 4      \* request/response variant: entries of chatHistory

VARIABLES
    session,       \* this.session: "null", or the state of the Session object it references
    others,        \* the client's other Transport Sessions, not (or not yet) referenced by
                   \* this.session: how many are opening, open, closing
    audioContext,  \* this.audioContext: "null" or "running"
    audioQueue,    \* this.audioQueue: sequence of chunks [id, ok]
    isPlaying,     \* this.isPlaying
    loops,         \* loops[l]: the chunk id the l-th drain loop awaits the end of; 0 when it is past its while loop
    status,        \* the status last reported through onStatusChange
    played,        \* history: <<chunk id, loop>> of every source.start(), in order
    nextChunk,     \* history: number of chunks enqueued so far (the next chunk's id is nextChunk + 1)
    lastCall,      \* history: what the last handler did (its callbacks, whether it threw)
    cancelled,     \* history: ids of the chunks that were queued, not yet dequeued, at a disconnect()
    mediaRecorder, \* this.mediaRecorder of the capture variant: "null" or "recording"
    rawError,      \* the message text handed to parseError
    parsed,        \* the ConnectionError parseError returned for rawError, or NotParsed
    messages,      \* the caller's message list: every ChatMessage its onMessage got, in order
    uiStatus,      \* the component's status state
    hasClient,     \* whether clientRef.current holds a client
    fetching,      \* number of VoiceChat connect() calls awaiting getApiConfig()
    inbound,       \* history: the frames handed to handleMessage while the caller listens, in order
    starting,      \* capture variant: startAudioStream() calls awaiting getUserMedia
    captureAsked,  \* history: startAudioStream() was called since the last disconnect()
    reading,       \* capture variant: ondataavailable callbacks awaiting event.data.arrayBuffer()
    isRecording,   \* the component's isRecording state
    chunkLog,      \* history, kept while the drain is watched: for each chunk, the loop that awaited a
                   \* buffer's end when it was enqueued (0: none), whether a turnComplete frame came after it,
                   \* and whether it converts and plays
    buffer,        \* the bytes of an ArrayBuffer handed to arrayBufferToBase64
    base64,        \* the string arrayBufferToBase64 returned for it
    decoded,       \* the bytes of the ArrayBuffer base64ToArrayBuffer returned for that string
    client,        \* request/response variant: this.client, "null" or "set"
    isConnected,   \* request/response variant: this.isConnected
    chatHistory,   \* request/response variant: this.chatHistory, a sequence of [role, text]
    pending,       \* request/response variant: sendText calls awaiting generateContent
    connectAsked,  \* history: connect() was called since the last disconnect()
    retryCount,    \* the component's retryCount state
    captured,      \* the values of the status state in the renders whose connect() ran: what the
                   \* callbacks of the clients built so far read as `status`
    uiTrail        \* history: the values the component's last handler passed to setStatus, in order

vars == <<session, others, audioContext, audioQueue, isPlaying, loops,
          status, played, nextChunk, lastCall, cancelled, mediaRecorder,
          rawError, parsed, messages, uiStatus, hasClient, fetching, inbound, chunkLog,
          starting, captureAsked, reading, isRecording, buffer, base64, decoded,
          client, isConnected, chatHistory, pending, connectAsked,
          retryCount, captured, uiTrail>>

\* What GeminiLiveClient of gemini.ts has not: the recorder and its start.
aside == <<mediaRecorder, starting, captureAsked, reading>>
\* The same, and the history of cancelled chunks, which only disconnect() extends.
apart == <<cancelled, mediaRecorder, starting, captureAsked, reading>>
\* The buffers of the base64 conversions.
codec == <<buffer, base64, decoded>>
\* The client of the request/response variant.
fallback == <<client, isConnected, chatHistory, pending, connectAsked>>
\* The classifier's input and output.
parseVars == <<rawError, parsed>>
\* The state of the VoiceChat component besides its message list.
ui == <<rawError, parsed, uiStatus, hasClient, fetching, isRecording,
       retryCount, captured, uiTrail>>
\* What belongs to the caller of the client: the component's state, and the
\* records of one who watches the client from outside.  The actions of the
\* client leave it to the callbacks the caller has set.
caller == <<messages, rawError, parsed, uiStatus, hasClient, fetching, inbound,
            chunkLog, isRecording, buffer, base64, decoded,
            client, isConnected, chatHistory, pending, connectAsked,
            retryCount, captured, uiTrail>>

\* ------------------------------------------------------------ environment
\* A Transport Session is "opening" from live.connect() to its open signal,
\* then "open"; session.close() makes it "closing" until its close event is
\* delivered, which makes it "closed".  A closed session that this.session
\* does not reference is forgotten.
\* Sessions that are opening for a client the component has replaced are
\* "stray": no this.session of the current client will reference them.
NoOthers == [opening |-> 0, open |-> 0, closing |-> 0, stray |-> 0]

\* Socket close codes the close callback tells apart, and one it does not.
CloseCodes == {1000, 1001, 1006, 1008, 1011}
\* CloseEvent.reason: empty, or a text of the server's.
CloseReasons == {"", "going away"}
\* ErrorEvent.message: empty, or a text.
ErrorTexts == {"", "network down"}
\* The error of a throwing constructor or of a rejected live.connect.
SdkError == "sdk failure"

\* String.prototype.startsWith.
startsWith(s, prefix) ==
    Len(s) >= Len(prefix) /\ SubSeq(s, 1, Len(prefix)) = prefix

\* A modelTurn part: its text ("" when it has none) and its inlineData
\* (mimeType and data, "" when absent).  The data is "pcm16" when it decodes
\* to 16-bit PCM and "odd" when it does not (the Int16Array constructor
\* throws on a buffer of odd length).
Part(text, mimeType, data) == [text |-> text, mimeType |-> mimeType, data |-> data]
Hel == Part("Hel", "", "")
Lo == Part("lo", "", "")
Audio == Part("", "audio/pcm", "pcm16")
AudioBad == Part("", "audio/pcm", "odd")
AudioEmpty == Part("", "audio/pcm", "")
Image == Part("", "image/png", "pcm16")
Untyped == Part("", "", "pcm16")
Spoken == Part("Hel", "audio/pcm", "pcm16")
Other == Part("", "", "")

\* if (part.text)
HasText(p) == p.text # ""
\* if (part.inlineData?.data && part.inlineData.mimeType?.startsWith('audio/'))
HasAudio(p) == p.data # "" /\ startsWith(p.mimeType, "audio/")
\* if (part.inlineData?.data), the test of the capture variant
HasInline(p) == p.data # ""

\* The modelTurn.parts of the frames the server sends during a session.
ModelTurns ==
    {<<>>, <<Hel>>, <<Audio>>, <<AudioBad>>, <<Hel, Audio>>,
     <<Audio, Audio>>, <<AudioBad, Audio>>}

\* Turns for the frame-by-frame view: several texts, inline data that is not
\* audio, has no MIME type or has no data, a part with text and audio, and
\* parts of a kind the client does not know.
AllTurns ==
    {<<>>, <<Hel>>, <<Audio>>, <<Hel, Lo>>, <<Image>>, <<Untyped>>, <<Spoken>>,
     <<AudioEmpty>>, <<Other, Hel>>, <<Image, Audio>>}

\* Inbound frames: a setupComplete marker, or serverContent with its flags
\* and parts.
Frames ==
    {[setupComplete |-> TRUE, serverContent |-> FALSE, interrupted |-> FALSE,
      turnComplete |-> FALSE, parts |-> <<>>]}
    \cup
    [setupComplete : {FALSE}, serverContent : {TRUE}, interrupted : BOOLEAN,
     turnComplete : BOOLEAN, parts : ModelTurns]

\* Every combination of the markers, for the frame-by-frame view: frames
\* without serverContent, and serverContent with any of its markers, under a
\* setupComplete marker or not.
AllFrames ==
    [setupComplete : BOOLEAN, serverContent : {FALSE}, interrupted : {FALSE},
     turnComplete : {FALSE}, parts : {<<>>}]
    \cup
    [setupComplete : BOOLEAN, serverContent : {TRUE}, interrupted : BOOLEAN,
     turnComplete : BOOLEAN, parts : AllTurns]

\* ---------------------------------------------------------------- history
\* No ConnectionError yet.
NotParsed == [message |-> "", details |-> "", recoverable |-> TRUE]

\* A frame with nothing in it.
NoFrame ==
    [setupComplete |-> FALSE, serverContent |-> FALSE, interrupted |-> FALSE,
     turnComplete |-> FALSE, parts |-> <<>>]

\* What a handler did: the status before it, the statuses and errors it
\* reported, whether it threw; for a close event its code and reason; for an
\* inbound frame the frame, the texts it emitted through onMessage, and the
\* queue, the number of drain loops, the number of chunks enqueued and
\* isPlaying before it; for sendText its argument
\* and what it did, in order; for a handler of the component what it did, in
\* order, and the number of sessions not yet closed before it.
NoCall ==
    [op |-> "new", statusBefore |-> "disconnected", statuses |-> <<>>,
     errors |-> <<>>, threw |-> FALSE, code |-> 0, reason |-> "",
     frame |-> NoFrame, emitted |-> <<>>, queueBefore |-> <<>>, loopsBefore |-> 0,
     text |-> "", trail |-> <<>>, liveBefore |-> 0,
     chunksBefore |-> 0, playingBefore |-> FALSE]

Call(op, statuses, errors, threw) ==
    [NoCall EXCEPT !.op = op, !.statusBefore = status, !.statuses = statuses,
                   !.errors = errors, !.threw = threw]

\* Transport Sessions of this client that are open, and that are not closed.
OpenSessions == others.open + (IF session = "open" THEN 1 ELSE 0)
LiveSessions ==
    others.opening + others.open + others.closing + others.stray
    + (IF session \in {"open", "closing"} THEN 1 ELSE 0)
ActiveLoops == {l \in 1..Len(loops) : loops[l] # 0}
Ids(queue) == {queue[i].id : i \in 1..Len(queue)}

\* `o` with one more, or one less, session in state st.
Plus(o, st) == [o EXCEPT ![st] = @ + 1]
Minus(o, st) == [o EXCEPT ![st] = @ - 1]
\* `o` after this.session stops referencing a session in state st.
Dropped(o, st) == IF st \in {"open", "closing"} THEN Plus(o, st) ELSE o

\* ------------------------------------------------------------------- Init
Init ==
    /\ session = "null"
    /\ others = NoOthers
    /\ audioContext = "null"
    /\ audioQueue = <<>>
    /\ isPlaying = FALSE
    /\ loops = <<>>
    /\ status = "disconnected"
    /\ played = <<>>
    /\ nextChunk = 0
    /\ lastCall = NoCall
    /\ cancelled = {}
    /\ mediaRecorder = "null"
    /\ rawError = ""
    /\ parsed = NotParsed
    /\ messages = <<>>
    /\ uiStatus = "disconnected"
    /\ hasClient = FALSE
    /\ fetching = 0
    /\ inbound = <<>>
    /\ chunkLog = <<>>
    /\ buffer = <<>>
    /\ base64 = <<>>
    /\ decoded = <<>>
    /\ client = "null"
    /\ isConnected = FALSE
    /\ chatHistory = <<>>
    /\ pending = 0
    /\ connectAsked = FALSE
    /\ retryCount = 0
    /\ captured = {}
    /\ uiTrail = <<>>
    /\ starting = 0
    /\ captureAsked = FALSE
    /\ reading = 0
    /\ isRecording = FALSE

\* ------------------------------------------------- GeminiLiveClient.connect
\* connect(apiKey) up to its await: reports 'connecting', builds the SDK
\* client and the AudioContext and calls live.connect.  A throw of one of the
\* constructors lands in the catch block before any session is requested.
connect ==
    \E setupThrows \in BOOLEAN :
        /\ LiveSessions < MaxSessions
        /\ IF setupThrows
           THEN /\ lastCall' = Call("connect", <<"connecting", "disconnected">>, <<SdkError>>, TRUE)
                /\ status' = "disconnected"
                /\ UNCHANGED <<others, audioContext>>
           ELSE /\ lastCall' = Call("connect", <<"connecting">>, <<>>, FALSE)
                /\ status' = "connecting"
                /\ audioContext' = "running"
                /\ others' = Plus(others, "opening")
        /\ UNCHANGED <<session, audioQueue, isPlaying, loops, played, nextChunk>>
        /\ UNCHANGED apart

\* The open signal of an opening session: the onopen callback reports
\* 'connected', and the promise connect() awaits resolves in the same turn of
\* the event loop, so the continuation stores the session in this.session
\* (the session the field referenced before stays as it is, unreferenced).
onopen ==
    /\ others.opening > 0
    /\ others' = Dropped(Minus(others, "opening"), session)
    /\ session' = "open"
    /\ status' = "connected"
    /\ lastCall' = Call("onopen", <<"connected">>, <<>>, FALSE)
    /\ UNCHANGED <<audioContext, audioQueue, isPlaying, loops, played, nextChunk>>
    /\ UNCHANGED apart

\* A catch block that logs the failure and returns.
connectCatchSwallows ==
    /\ others.opening > 0
    /\ others' = Minus(others, "opening")
    /\ status' = "disconnected"
    /\ lastCall' = [Call("connectCatch", <<"disconnected">>, <<>>, FALSE)
                        EXCEPT !.trail = <<"onStatusChange">>]
    /\ UNCHANGED <<session, audioContext, audioQueue, isPlaying, loops, played, nextChunk>>
    /\ UNCHANGED apart

\* live.connect rejects: the catch block of connect() calls onError, then
\* onStatusChange('disconnected'), and throws the error again.
connectCatch ==
    /\ others.opening > 0
    /\ others' = Minus(others, "opening")
    /\ status' = "disconnected"
    /\ lastCall' = [Call("connectCatch", <<"disconnected">>, <<SdkError>>, TRUE)
                        EXCEPT !.trail = <<"onError", "onStatusChange", "throw">>]
    /\ UNCHANGED <<session, audioContext, audioQueue, isPlaying, loops, played, nextChunk>>
    /\ UNCHANGED apart

\* callbacks.onerror of an opening or open session: forwards the event's
\* message, or a default text.
onerror ==
    \E m \in ErrorTexts :
        /\ others.opening + OpenSessions > 0
        /\ lastCall' = Call("onerror", <<>>,
                            <<IF m # "" THEN m ELSE "WebSocket connection error">>, FALSE)
        /\ UNCHANGED <<session, others, audioContext, audioQueue, isPlaying,
                       loops, status, played, nextChunk>>
        /\ UNCHANGED apart

\* A classifier that looks at the reason before the fixed codes.
closeMessageReasonFirst(code, reason) ==
    IF code = 1000 THEN "Connection closed normally"
    ELSE IF reason # "" THEN "Connection closed: " \o reason
    ELSE IF code = 1006
    THEN "Connection closed abnormally - possible network issue or invalid API key"
    ELSE IF code = 1008 THEN "Policy violation - check your API key permissions"
    ELSE IF code = 1011 THEN "Server error - the Gemini service encountered an issue"
    ELSE "Connection closed"

\* The close-code classifier of callbacks.onclose.
closeMessage(code, reason) ==
    IF code = 1000 THEN "Connection closed normally"
    ELSE IF code = 1006
    THEN "Connection closed abnormally - possible network issue or invalid API key"
    ELSE IF code = 1008 THEN "Policy violation - check your API key permissions"
    ELSE IF code = 1011 THEN "Server error - the Gemini service encountered an issue"
    ELSE IF reason # "" THEN "Connection closed: " \o reason
    ELSE "Connection closed"

\* The callbacks of callbacks.onclose for a close event (code, reason).
oncloseCall(code, reason) ==
    [Call("onclose", <<"disconnected">>,
          IF code # 1000 THEN <<closeMessage(code, reason)>> ELSE <<>>, FALSE)
     EXCEPT !.code = code, !.reason = reason]

\* The close event of a session, from the server or after session.close():
\* of the session this.session references (which = "session"), or of another
\* one in state `which`.  The callback leaves this.session as it is.
onclose(which) ==
    \E code \in CloseCodes, reason \in CloseReasons :
        /\ IF which = "session"
           THEN /\ session \in {"open", "closing"}
                /\ session' = "closed"
                /\ UNCHANGED others
           ELSE /\ others[which] > 0
                /\ others' = Minus(others, which)
                /\ UNCHANGED session
        /\ status' = "disconnected"
        /\ lastCall' = oncloseCall(code, reason)
        /\ UNCHANGED <<audioContext, audioQueue, isPlaying, loops, played, nextChunk>>
        /\ UNCHANGED apart

\* ---------------------------------------------------- the playback pipeline
\* queueAudio for the audio parts of one modelTurn, in part order: the chunks
\* get the next ids and are appended at the tail.
NewChunks(audioParts) ==
    [i \in 1..Len(audioParts) |->
        [id |-> nextChunk + i, ok |-> audioParts[i].data = "pcm16"]]

\* A queue that takes new chunks at its head.
queueAudioFront(queue, chunks) == chunks \o queue

queueAudio(queue, chunks) == queue \o chunks

\* A loop that reads the head of the queue without shifting the chunk it
\* starts.
RECURSIVE drainLoopPeeks(_, _)
drainLoopPeeks(queue, ctx) ==
    IF queue = <<>> THEN [queue |-> <<>>, started |-> 0]
    ELSE IF ctx # "null" /\ Head(queue).ok
         THEN [queue |-> queue, started |-> Head(queue).id]
         ELSE drainLoopPeeks(Tail(queue), ctx)

\* A loop that gives up at the first chunk that fails: the chunk is shifted,
\* the rest of the queue stays.
drainLoopAborts(queue, ctx) ==
    IF queue = <<>> THEN [queue |-> <<>>, started |-> 0]
    ELSE IF ctx # "null" /\ Head(queue).ok
         THEN [queue |-> Tail(queue), started |-> Head(queue).id]
         ELSE [queue |-> Tail(queue), started |-> 0]

\* The while loop of playQueuedAudio from one entry (or one resumption) to
\* its next await: each pass shifts the head chunk; a chunk whose conversion
\* or playback throws (always so when this.audioContext is null) is logged in
\* the catch block and the loop goes on; the first chunk that starts suspends
\* the loop.  started = 0: the queue ran empty and the loop is over.
RECURSIVE drainLoop(_, _)
drainLoop(queue, ctx) ==
    IF queue = <<>> THEN [queue |-> <<>>, started |-> 0]
    ELSE IF ctx # "null" /\ Head(queue).ok
         THEN [queue |-> Tail(queue), started |-> Head(queue).id]
         ELSE drainLoop(Tail(queue), ctx)

\* A guard of playQueuedAudio that does not look at isPlaying.
playGuardReentrant(queue) == queue # <<>> /\ audioContext # "null"

\* The guard of playQueuedAudio.
playGuard(queue) == ~isPlaying /\ queue # <<>> /\ audioContext # "null"

\* The texts of the parts, the last part first.
TextsNewestFirst(parts) == [i \in 1..Len(parts) |-> parts[Len(parts) + 1 - i].text]

\* The text of each part, in part order.
Texts(parts) == [i \in 1..Len(parts) |-> parts[i].text]

\* A handleMessage whose first check is missing: a setupComplete frame is
\* treated by what else it carries.
frameEffectsSetupUnchecked(frame) ==
    IF ~frame.serverContent \/ frame.interrupted
    THEN [texts |-> <<>>, audio |-> <<>>, drain |-> FALSE]
    ELSE IF frame.turnComplete
    THEN [texts |-> <<>>, audio |-> <<>>, drain |-> TRUE]
    ELSE [texts |-> Texts(SelectSeq(frame.parts, HasText)),
          audio |-> SelectSeq(frame.parts, HasAudio),
          drain |-> FALSE]

\* A handleMessage that looks at turnComplete before interrupted: a frame
\* with both markers drains the queue.
frameEffectsTurnCompleteFirst(frame) ==
    IF frame.setupComplete \/ ~frame.serverContent
    THEN [texts |-> <<>>, audio |-> <<>>, drain |-> FALSE]
    ELSE IF frame.turnComplete
    THEN [texts |-> <<>>, audio |-> <<>>, drain |-> TRUE]
    ELSE IF frame.interrupted
    THEN [texts |-> <<>>, audio |-> <<>>, drain |-> FALSE]
    ELSE [texts |-> Texts(SelectSeq(frame.parts, HasText)),
          audio |-> SelectSeq(frame.parts, HasAudio),
          drain |-> FALSE]

\* What handleMessage makes of a frame: the texts it emits through onMessage,
\* the parts it queues, and whether it calls playQueuedAudio.  The checks
\* return in this order: setupComplete, no serverContent, interrupted,
\* turnComplete; only then the parts are looked at.
frameEffects(frame) ==
    IF frame.setupComplete \/ ~frame.serverContent \/ frame.interrupted
    THEN [texts |-> <<>>, audio |-> <<>>, drain |-> FALSE]
    ELSE IF frame.turnComplete
    THEN [texts |-> <<>>, audio |-> <<>>, drain |-> TRUE]
    ELSE [texts |-> Texts(SelectSeq(frame.parts, HasText)),
          audio |-> SelectSeq(frame.parts, HasAudio),
          drain |-> FALSE]

\* GeminiLiveClient.handleMessage for the inbound frame of an open session:
\* the parts are queued, or playQueuedAudio runs up to its first await.
handleFrame(frame) ==
    LET does  == frameEffects(frame)
        start == does.drain /\ playGuard(audioQueue)
        run   == drainLoop(audioQueue, audioContext)
        l     == Len(loops) + 1
    IN  /\ OpenSessions > 0
        /\ nextChunk + Len(does.audio) <= MaxChunks
        /\ nextChunk' = nextChunk + Len(does.audio)
        /\ IF start
           THEN /\ audioQueue' = run.queue
                /\ isPlaying' = (run.started # 0)
                /\ loops' = Append(loops, run.started)
                /\ played' = IF run.started # 0
                             THEN Append(played, <<run.started, l>>) ELSE played
           ELSE /\ audioQueue' = queueAudio(audioQueue, NewChunks(does.audio))
                /\ UNCHANGED <<isPlaying, loops, played>>
        /\ UNCHANGED <<session, others, audioContext, status>>
        /\ UNCHANGED apart

\* A frame arrives at a client whose caller set no onMessage.
handleMessage ==
    \E frame \in Frames :
        /\ handleFrame(frame)
        /\ lastCall' = Call("handleMessage", <<>>, <<>>, FALSE)

\* A loop that resumes, runs the queue empty and leaves isPlaying set.
endedLoopStaysPlaying(l) ==
    LET run == drainLoop(audioQueue, audioContext)
    IN  /\ l \in ActiveLoops
        /\ audioQueue' = run.queue
        /\ loops' = [loops EXCEPT ![l] = run.started]
        /\ played' = IF run.started # 0
                     THEN Append(played, <<run.started, l>>) ELSE played
        /\ UNCHANGED isPlaying
        /\ UNCHANGED <<session, others, audioContext, status, nextChunk>>
        /\ UNCHANGED apart

\* source.onended of the buffer loop l started: the loop resumes after its
\* await, goes on with the queue as it is now, and resets isPlaying when the
\* queue is empty.  (Whether a buffer of a closed AudioContext still signals
\* its end is the platform's choice: the action may or may not be taken.)
endedLoop(l) ==
    LET run == drainLoop(audioQueue, audioContext)
    IN  /\ l \in ActiveLoops
        /\ audioQueue' = run.queue
        /\ loops' = [loops EXCEPT ![l] = run.started]
        /\ played' = IF run.started # 0
                     THEN Append(played, <<run.started, l>>) ELSE played
        /\ isPlaying' = IF run.started # 0 THEN isPlaying ELSE FALSE
        /\ UNCHANGED <<session, others, audioContext, status, nextChunk>>
        /\ UNCHANGED apart

\* source.onended at a client nobody watches.
onended(l) ==
    /\ endedLoop(l)
    /\ lastCall' = Call("onended", <<>>, <<>>, FALSE)

\* ---------------------------------------------- GeminiLiveClient.disconnect
\* The state of a session after session.close(): an open session starts
\* closing (its close event follows); a session that is closing or closed
\* stays as it is.
closed(st) == IF st = "open" THEN "closing" ELSE st

\* Whether session.close() may throw: not on an open session (the socket
\* takes the close); closing a session again may.
mayThrow(st) == st \in {"closing", "closed"}

\* A disconnect() whose session.close() is not guarded: a throw leaves the
\* method before anything is cleared or reported.
disconnectUnguarded ==
    \E closeThrows \in BOOLEAN :
        /\ closeThrows => mayThrow(session)
        /\ IF closeThrows
           THEN /\ lastCall' = Call("disconnect", <<>>, <<>>, TRUE)
                /\ UNCHANGED <<session, others, audioContext, audioQueue,
                               isPlaying, status, cancelled>>
           ELSE /\ others' = Dropped(others, closed(session))
                /\ session' = "null"
                /\ audioContext' = "null"
                /\ audioQueue' = <<>>
                /\ isPlaying' = FALSE
                /\ status' = "disconnected"
                /\ lastCall' = Call("disconnect", <<"disconnected">>, <<>>, FALSE)
                /\ cancelled' = cancelled \cup Ids(audioQueue)
        /\ UNCHANGED <<loops, played, nextChunk>>
        /\ UNCHANGED aside

\* disconnect(): session.close() and audioContext.close() are each inside a
\* try/catch, so a throw of theirs is logged and does not leave the method.
disconnect ==
    \E closeThrows \in BOOLEAN :
        /\ closeThrows => mayThrow(session)
        /\ others' = Dropped(others, closed(session))
        /\ session' = "null"
        /\ audioContext' = "null"
        /\ audioQueue' = <<>>
        /\ isPlaying' = FALSE
        /\ status' = "disconnected"
        /\ lastCall' = Call("disconnect", <<"disconnected">>, <<>>, FALSE)
        /\ cancelled' = cancelled \cup Ids(audioQueue)
        /\ UNCHANGED <<loops, played, nextChunk>>
        /\ UNCHANGED aside

\* ------------------------------------------------------------------- Next
\* The client alone: its caller has set no callback that keeps state.
Next ==
    \/ disconnect /\ UNCHANGED caller
    \/ connect /\ UNCHANGED caller
    \/ onopen /\ UNCHANGED caller
    \/ connectCatch /\ UNCHANGED caller
    \/ onerror /\ UNCHANGED caller
    \/ \E which \in {"session", "opening", "open", "closing"} :
           onclose(which) /\ UNCHANGED caller
    \/ handleMessage /\ UNCHANGED caller
    \/ \E l \in 1..MaxChunks : onended(l) /\ UNCHANGED caller

Spec == Init /\ [][Next]_vars

\* ------------------------------------------------ GeminiLiveClient.sendText
\* Texts a caller sends: empty, blank, and with content.
SendTexts == {"", "  ", "hi"}

\* Whether session.sendClientContent() may throw: not on an open session; on
\* one that is closing or closed it may.
mayReject(st) == st \in {"closing", "closed"}

\* A sendText whose user message is emitted only after the transport took
\* the text, and whose failures are swallowed.
sendTextQuiet ==
    \E text \in SendTexts, sendFails \in BOOLEAN :
        /\ sendFails => mayReject(session)
        /\ IF session = "null"
           THEN /\ lastCall' = [Call("sendText", <<>>, <<>>, TRUE)
                                EXCEPT !.text = text, !.trail = <<"throw">>]
                /\ UNCHANGED messages
           ELSE IF sendFails
           THEN /\ lastCall' = [Call("sendText", <<>>, <<>>, FALSE)
                                EXCEPT !.text = text, !.trail = <<"sendClientContent">>]
                /\ UNCHANGED messages
           ELSE /\ Len(messages) < MaxMessages
                /\ messages' = Append(messages, [role |-> "user", content |-> text])
                /\ lastCall' = [Call("sendText", <<>>, <<>>, FALSE)
                                EXCEPT !.text = text, !.emitted = <<text>>,
                                       !.trail = <<"sendClientContent", "onMessage">>]
        /\ UNCHANGED <<session, others, audioContext, audioQueue, isPlaying, loops,
                       status, played, nextChunk, cancelled, mediaRecorder, starting, captureAsked, reading>>

\* sendText(text): throws when this.session is null; otherwise emits the user
\* ChatMessage through onMessage (the caller appends it to its list), then
\* hands the text to session.sendClientContent and rethrows what that throws.
sendText ==
    \E text \in SendTexts, sendFails \in BOOLEAN :
        /\ sendFails => mayReject(session)
        /\ IF session = "null"
           THEN /\ lastCall' = [Call("sendText", <<>>, <<>>, TRUE)
                                EXCEPT !.text = text, !.trail = <<"throw">>]
                /\ UNCHANGED messages
           ELSE /\ Len(messages) < MaxMessages
                /\ messages' = Append(messages, [role |-> "user", content |-> text])
                /\ lastCall' = [Call("sendText", <<>>, <<>>, sendFails)
                                EXCEPT !.text = text, !.emitted = <<text>>,
                                       !.trail = <<"onMessage", "sendClientContent">>
                                                 \o (IF sendFails THEN <<"throw">> ELSE <<>>)]
        /\ UNCHANGED <<session, others, audioContext, audioQueue, isPlaying, loops,
                       status, played, nextChunk, cancelled, mediaRecorder, starting, captureAsked, reading>>

\* The client and a caller that sends texts and keeps the message list.
NextSend ==
    \/ disconnect /\ UNCHANGED caller
    \/ \E which \in {"session", "opening", "open", "closing"} :
           onclose(which) /\ UNCHANGED caller
    \/ connect /\ UNCHANGED caller
    \/ onopen /\ UNCHANGED caller
    \/ connectCatch /\ UNCHANGED caller
    \/ sendText /\ UNCHANGED ui /\ UNCHANGED <<inbound, chunkLog, codec, fallback>>

SpecSend == Init /\ [][NextSend]_vars

\* ------------------------------------------- the variant with audio capture
\* GeminiLiveClient of src/unnamed/part_003.  connect(), its onopen callback,
\* its catch block and playQueuedAudio are the same code as above.
connect_capture == connect
onopen_capture == onopen
connectCatch_capture == connectCatch
onended_capture(l) == onended(l)

\* callbacks.onerror: forwards the event's message, or a default text.
onerror_capture ==
    \E m \in ErrorTexts :
        /\ others.opening + OpenSessions > 0
        /\ lastCall' = Call("onerror", <<>>,
                            <<IF m # "" THEN m ELSE "Connection error">>, FALSE)
        /\ UNCHANGED <<session, others, audioContext, audioQueue, isPlaying,
                       loops, status, played, nextChunk>>
        /\ UNCHANGED apart

\* callbacks.onclose: logs the reason and reports 'disconnected'.
onclose_capture(which) ==
    \E code \in CloseCodes, reason \in CloseReasons :
        /\ IF which = "session"
           THEN /\ session \in {"open", "closing"}
                /\ session' = "closed"
                /\ UNCHANGED others
           ELSE /\ others[which] > 0
                /\ others' = Minus(others, which)
                /\ UNCHANGED session
        /\ status' = "disconnected"
        /\ lastCall' = [Call("onclose", <<"disconnected">>, <<>>, FALSE)
                        EXCEPT !.code = code, !.reason = reason]
        /\ UNCHANGED <<audioContext, audioQueue, isPlaying, loops, played, nextChunk>>
        /\ UNCHANGED apart

\* What handleMessage of the capture variant makes of a frame: every part of
\* the modelTurn is handled, whatever the frame's other markers, each part
\* with inline data is queued, and after the parts a turnComplete marker
\* calls playQueuedAudio.
frameEffects_capture(frame) ==
    IF ~frame.serverContent
    THEN [texts |-> <<>>, audio |-> <<>>, drain |-> FALSE]
    ELSE [texts |-> Texts(SelectSeq(frame.parts, HasText)),
          audio |-> SelectSeq(frame.parts, HasInline),
          drain |-> frame.turnComplete]

handleFrame_capture(frame) ==
    LET does  == frameEffects_capture(frame)
        queue == queueAudio(audioQueue, NewChunks(does.audio))
        start == does.drain /\ playGuard(queue)
        run   == drainLoop(queue, audioContext)
        l     == Len(loops) + 1
    IN  /\ OpenSessions > 0
        /\ nextChunk + Len(does.audio) <= MaxChunks
        /\ nextChunk' = nextChunk + Len(does.audio)
        /\ IF start
           THEN /\ audioQueue' = run.queue
                /\ isPlaying' = (run.started # 0)
                /\ loops' = Append(loops, run.started)
                /\ played' = IF run.started # 0
                             THEN Append(played, <<run.started, l>>) ELSE played
           ELSE /\ audioQueue' = queue
                /\ UNCHANGED <<isPlaying, loops, played>>
        /\ UNCHANGED <<session, others, audioContext, status>>
        /\ UNCHANGED apart

handleMessage_capture ==
    \E frame \in Frames :
        /\ handleFrame_capture(frame)
        /\ lastCall' = Call("handleMessage", <<>>, <<>>, FALSE)

\* startAudioStream() up to its await of getUserMedia.
startAudioStream ==
    /\ starting < MaxStarts
    /\ starting' = starting + 1
    /\ captureAsked' = TRUE
    /\ lastCall' = Call("startAudioStream", <<>>, <<>>, FALSE)
    /\ UNCHANGED <<session, others, audioContext, audioQueue, isPlaying,
                   loops, status, played, nextChunk, cancelled, mediaRecorder,
                   reading>>

\* getUserMedia settles and startAudioStream() goes on: with the stream it
\* builds a MediaRecorder, stores it in this.mediaRecorder and starts it;
\* without it (the device is denied, or the recorder cannot be built) the
\* call rejects and the field stays as it is.
startAudioStreamResumes(granted) ==
    /\ starting > 0
    /\ starting' = starting - 1
    /\ mediaRecorder' = IF granted THEN "recording" ELSE mediaRecorder
    /\ UNCHANGED <<session, others, audioContext, audioQueue, isPlaying,
                   loops, status, played, nextChunk, cancelled, captureAsked,
                   reading>>

\* The same at a client whose caller keeps no state.
getUserMediaSettles ==
    \E granted \in BOOLEAN :
        /\ startAudioStreamResumes(granted)
        /\ lastCall' = Call("getUserMedia", <<>>, <<>>, ~granted)

\* mediaRecorder.ondataavailable up to its await: a chunk that is not empty
\* is read, with event.data.arrayBuffer(), when this.session is set; anything
\* else is skipped.
ondataavailable ==
    \E size \in {0, 1} :
        /\ mediaRecorder = "recording"
        /\ IF size > 0 /\ session # "null"
           THEN /\ reading < MaxReads
                /\ reading' = reading + 1
                /\ lastCall' = [Call("ondataavailable", <<>>, <<>>, FALSE)
                                    EXCEPT !.trail = <<"arrayBuffer">>]
           ELSE /\ UNCHANGED reading
                /\ lastCall' = Call("ondataavailable", <<>>, <<>>, FALSE)
        /\ UNCHANGED <<session, others, audioContext, audioQueue, isPlaying,
                       loops, status, played, nextChunk, cancelled,
                       mediaRecorder, starting, captureAsked>>

\* event.data.arrayBuffer() resolves and the callback goes on: the bytes are
\* encoded and this.session.sendRealtimeInput is called on this.session as
\* it is now: a TypeError when it is null; a session that is closing or
\* closed may refuse the chunk.
arrayBufferResolves ==
    \E sendThrows \in BOOLEAN :
        /\ sendThrows => mayReject(session)
        /\ reading > 0
        /\ reading' = reading - 1
        /\ lastCall' = [Call("ondataavailable", <<>>, <<>>, sendThrows \/ session = "null")
                            EXCEPT !.trail = IF session = "null"
                                             THEN <<"arrayBufferToBase64", "TypeError">>
                                             ELSE <<"arrayBufferToBase64", "sendRealtimeInput">>]
        /\ UNCHANGED <<session, others, audioContext, audioQueue, isPlaying,
                       loops, status, played, nextChunk, cancelled,
                       mediaRecorder, starting, captureAsked>>

\* stopAudioStream(): stops and drops the recorder, if there is one.
stopAudioStream ==
    /\ mediaRecorder' = "null"
    /\ lastCall' = Call("stopAudioStream", <<>>, <<>>, FALSE)
    /\ UNCHANGED <<session, others, audioContext, audioQueue, isPlaying,
                   loops, status, played, nextChunk, cancelled, starting,
                   captureAsked, reading>>

\* disconnect(): stopAudioStream(), session.close(), audioContext.close(),
\* none of them guarded: a throw of session.close() leaves the method there.
\* The queue and isPlaying are left as they are, and so is a
\* startAudioStream() that awaits its stream.
disconnect_capture ==
    \E closeThrows \in BOOLEAN :
        /\ closeThrows => mayThrow(session)
        /\ mediaRecorder' = "null"
        /\ captureAsked' = FALSE
        /\ IF closeThrows
           THEN /\ lastCall' = Call("disconnect", <<>>, <<>>, TRUE)
                /\ UNCHANGED <<session, others, audioContext, status>>
           ELSE /\ others' = Dropped(others, closed(session))
                /\ session' = "null"
                /\ audioContext' = "null"
                /\ status' = "disconnected"
                /\ lastCall' = Call("disconnect", <<"disconnected">>, <<>>, FALSE)
        /\ cancelled' = cancelled \cup Ids(audioQueue)
        /\ UNCHANGED <<audioQueue, isPlaying, loops, played, nextChunk, starting,
                       reading>>

NextCapture ==
    \/ connect_capture /\ UNCHANGED caller
    \/ onopen_capture /\ UNCHANGED caller
    \/ connectCatch_capture /\ UNCHANGED caller
    \/ onerror_capture /\ UNCHANGED caller
    \/ \E which \in {"session", "opening", "open", "closing"} :
           onclose_capture(which) /\ UNCHANGED caller
    \/ handleMessage_capture /\ UNCHANGED caller
    \/ \E l \in 1..MaxChunks : onended_capture(l) /\ UNCHANGED caller
    \/ stopAudioStream /\ UNCHANGED caller
    \/ disconnect_capture /\ UNCHANGED caller

SpecCapture == Init /\ [][NextCapture]_vars

\* The recorder of the capture variant and the sessions it sends to.
NextRecorder ==
    \/ connect_capture /\ UNCHANGED caller
    \/ onopen_capture /\ UNCHANGED caller
    \/ onclose_capture("session") /\ UNCHANGED caller
    \/ startAudioStream /\ UNCHANGED caller
    \/ getUserMediaSettles /\ UNCHANGED caller
    \/ ondataavailable /\ UNCHANGED caller
    \/ arrayBufferResolves /\ UNCHANGED caller
    \/ stopAudioStream /\ UNCHANGED caller
    \/ disconnect_capture /\ UNCHANGED caller

SpecRecorder == Init /\ [][NextRecorder]_vars

\* ------------------------------------------------------- the error classifier
\* String.prototype.includes: kw occurs in m, case-sensitively.
includes(m, kw) ==
    \E i \in 1..(Len(m) - Len(kw) + 1) : SubSeq(m, i, i + Len(kw) - 1) = kw

\* Words of raw error texts: the classifier's keywords, some of them in
\* another letter case or inside a longer word, and words it does not know.
Words ==
    {"API_KEY", "apiKey", "environment variable", "WebSocket", "connection",
     "Connection", "network", "Network", "401", "403", "unauthorized",
     "Unauthorized", "forbidden", "429", "rate", "generated", "quota",
     "model", "not found", "unavailable", "timeout"}

\* The words of ws, joined by single spaces.
RECURSIVE Join(_)
Join(ws) ==
    IF ws = <<>> THEN ""
    ELSE IF Len(ws) = 1 THEN ws[1]
    ELSE ws[1] \o " " \o Join(Tail(ws))

\* Raw error texts: the empty one, and up to MaxWords words.
RawErrors == {Join(ws) : ws \in UNION {[1..k -> Words] : k \in 0..MaxWords}}

\* A classifier that tries the rate-limit rule first.
parseErrorRateFirst(message) ==
    IF includes(message, "429") \/ includes(message, "rate") \/ includes(message, "quota")
    THEN [message |-> "Rate Limited", details |-> "rate", recoverable |-> TRUE]
    ELSE IF \/ includes(message, "API_KEY")
            \/ includes(message, "apiKey")
            \/ includes(message, "environment variable")
    THEN [message |-> "API Key Not Configured", details |-> "key", recoverable |-> FALSE]
    ELSE IF \/ includes(message, "WebSocket")
            \/ includes(message, "connection")
            \/ includes(message, "network")
    THEN [message |-> "Connection Failed", details |-> "connection", recoverable |-> TRUE]
    ELSE IF \/ includes(message, "401")
            \/ includes(message, "403")
            \/ includes(message, "unauthorized")
            \/ includes(message, "forbidden")
    THEN [message |-> "Authentication Error", details |-> "auth", recoverable |-> FALSE]
    ELSE IF \/ includes(message, "model")
            \/ includes(message, "not found")
            \/ includes(message, "unavailable")
    THEN [message |-> "Service Unavailable", details |-> "model", recoverable |-> TRUE]
    ELSE [message |-> "Connection Error",
          details |-> IF message # "" THEN message ELSE "fallback",
          recoverable |-> TRUE]

\* A classifier whose rate-limit rule does not know "429".
parseErrorWithout429(message) ==
    IF \/ includes(message, "API_KEY")
       \/ includes(message, "apiKey")
       \/ includes(message, "environment variable")
    THEN [message |-> "API Key Not Configured", details |-> "key", recoverable |-> FALSE]
    ELSE IF \/ includes(message, "WebSocket")
            \/ includes(message, "connection")
            \/ includes(message, "network")
    THEN [message |-> "Connection Failed", details |-> "connection", recoverable |-> TRUE]
    ELSE IF \/ includes(message, "401")
            \/ includes(message, "403")
            \/ includes(message, "unauthorized")
            \/ includes(message, "forbidden")
    THEN [message |-> "Authentication Error", details |-> "auth", recoverable |-> FALSE]
    ELSE IF includes(message, "rate") \/ includes(message, "quota")
    THEN [message |-> "Rate Limited", details |-> "rate", recoverable |-> TRUE]
    ELSE IF \/ includes(message, "model")
            \/ includes(message, "not found")
            \/ includes(message, "unavailable")
    THEN [message |-> "Service Unavailable", details |-> "model", recoverable |-> TRUE]
    ELSE [message |-> "Connection Error",
          details |-> IF message # "" THEN message ELSE "fallback",
          recoverable |-> TRUE]

\* parseError(error): the first rule whose keyword the message includes.
parseError(message) ==
    IF \/ includes(message, "API_KEY")
       \/ includes(message, "apiKey")
       \/ includes(message, "environment variable")
    THEN [message |-> "API Key Not Configured",
          details |-> "The Gemini API key is not set up. Please contact the administrator.",
          recoverable |-> FALSE]
    ELSE IF \/ includes(message, "WebSocket")
            \/ includes(message, "connection")
            \/ includes(message, "network")
    THEN [message |-> "Connection Failed",
          details |-> "Unable to connect to the AI service. Check your internet connection and try again.",
          recoverable |-> TRUE]
    ELSE IF \/ includes(message, "401")
            \/ includes(message, "403")
            \/ includes(message, "unauthorized")
            \/ includes(message, "forbidden")
    THEN [message |-> "Authentication Error",
          details |-> "The API key may be invalid or expired. Please contact the administrator.",
          recoverable |-> FALSE]
    ELSE IF \/ includes(message, "429")
            \/ includes(message, "rate")
            \/ includes(message, "quota")
    THEN [message |-> "Rate Limited",
          details |-> "Too many requests. Please wait a moment and try again.",
          recoverable |-> TRUE]
    ELSE IF \/ includes(message, "model")
            \/ includes(message, "not found")
            \/ includes(message, "unavailable")
    THEN [message |-> "Service Unavailable",
          details |-> "The AI model is currently unavailable. Please try again later.",
          recoverable |-> TRUE]
    ELSE [message |-> "Connection Error",
          details |-> IF message # "" THEN message
                      ELSE "An unexpected error occurred. Please try again.",
          recoverable |-> TRUE]

\* The component before an error reaches it: any raw error text may be the
\* next one client.onError, or the catch block of connect or sendMessage,
\* hands to parseError.
InitParse ==
    /\ session = "null"
    /\ others = NoOthers
    /\ audioContext = "null"
    /\ audioQueue = <<>>
    /\ isPlaying = FALSE
    /\ loops = <<>>
    /\ status = "disconnected"
    /\ played = <<>>
    /\ nextChunk = 0
    /\ lastCall = NoCall
    /\ cancelled = {}
    /\ mediaRecorder = "null"
    /\ rawError \in RawErrors
    /\ parsed = NotParsed
    /\ messages = <<>>
    /\ uiStatus = "disconnected"
    /\ hasClient = FALSE
    /\ fetching = 0
    /\ inbound = <<>>
    /\ chunkLog = <<>>
    /\ buffer = <<>>
    /\ base64 = <<>>
    /\ decoded = <<>>
    /\ client = "null"
    /\ isConnected = FALSE
    /\ chatHistory = <<>>
    /\ pending = 0
    /\ connectAsked = FALSE
    /\ retryCount = 0
    /\ captured = {}
    /\ uiTrail = <<>>
    /\ starting = 0
    /\ captureAsked = FALSE
    /\ reading = 0
    /\ isRecording = FALSE

\* The error arrives: the component keeps the ConnectionError parseError
\* returns for it.
classify ==
    /\ parsed = NotParsed
    /\ parsed' = parseError(rawError)
    /\ UNCHANGED <<session, others, audioContext, audioQueue, isPlaying, loops,
                   status, played, nextChunk, lastCall, cancelled, mediaRecorder, starting, captureAsked, reading,
                   rawError, messages, inbound, chunkLog, codec, fallback, isRecording, uiStatus, hasClient, fetching,
                   retryCount, captured, uiTrail>>

\* The close button of the error banner: setConnectionError(null).
dismiss ==
    /\ parsed # NotParsed
    /\ parsed' = NotParsed
    /\ lastCall' = Call("dismiss", <<>>, <<>>, FALSE)
    /\ UNCHANGED <<session, others, audioContext, audioQueue, isPlaying, loops,
                   status, played, nextChunk, cancelled, mediaRecorder, starting, captureAsked, reading,
                   rawError, messages, inbound, chunkLog, codec, fallback, isRecording, uiStatus, hasClient, fetching,
                   retryCount, captured>>
    /\ uiTrail' = <<>>

NextParse == classify \/ dismiss

SpecParse == InitParse /\ [][NextParse]_vars

\* ------------------------------------------- the request/response variant
\* The client that asks generateContent for each text, with the history of
\* the chat, instead of holding a live session.
Welcome == "Hi! I'm your AI assistant. How can I help you today?"
Sorry == "Sorry, I could not generate a response."

\* What generateContent may throw: Errors with a message, or something that
\* is not an Error.
RequestErrors ==
    {[isError |-> TRUE, message |-> "API_KEY not valid"],
     [isError |-> TRUE, message |-> "status 401"],
     [isError |-> TRUE, message |-> "quota exceeded"],
     [isError |-> TRUE, message |-> "status 429"],
     [isError |-> TRUE, message |-> "network down"],
     [isError |-> FALSE, message |-> "status 429"]}

\* The texts of the responses: response.text may be empty.
ResponseTexts == {"", "Hello!"}

\* The message of the Error the catch block of sendText hands to onError.
requestErrorMessage(err) ==
    IF ~err.isError THEN "Failed to get response"
    ELSE IF includes(err.message, "API_KEY") \/ includes(err.message, "401")
    THEN "Invalid API key"
    ELSE IF includes(err.message, "quota") \/ includes(err.message, "429")
    THEN "Rate limited - please wait a moment"
    ELSE err.message

\* connect(apiKey): nothing is awaited.  It reports 'connecting', builds the
\* SDK client, empties the history, sets isConnected, reports 'connected' and
\* emits the welcome message; a throw of the constructor is reported through
\* onError and 'disconnected' and thrown on.
connect_fallback ==
    \E setupThrows \in BOOLEAN :
        /\ connectAsked' = TRUE
        /\ IF setupThrows
           THEN /\ status' = "disconnected"
                /\ lastCall' = [Call("connect", <<"connecting", "disconnected">>,
                                     <<SdkError>>, TRUE)
                                    EXCEPT !.trail = <<"onError", "onStatusChange", "throw">>]
                /\ UNCHANGED <<client, isConnected, chatHistory>>
           ELSE /\ client' = "set"
                /\ chatHistory' = <<>>
                /\ isConnected' = TRUE
                /\ status' = "connected"
                /\ lastCall' = [Call("connect", <<"connecting", "connected">>, <<>>, FALSE)
                                    EXCEPT !.emitted = <<Welcome>>,
                                           !.trail = <<"onStatusChange", "onMessage">>]
        /\ UNCHANGED pending
        /\ UNCHANGED <<session, others, audioContext, audioQueue, isPlaying,
                       loops, played, nextChunk>>
        /\ UNCHANGED apart

\* sendText(text) up to its await: it throws without a client or while not
\* connected; otherwise it emits the user's message, pushes it to the history
\* and calls generateContent with the history.
sendText_fallback ==
    \E text \in {"hi"} :
        /\ IF client = "null" \/ ~isConnected
           THEN /\ lastCall' = [Call("sendText", <<>>, <<>>, TRUE) EXCEPT !.text = text]
                /\ UNCHANGED <<chatHistory, pending>>
           ELSE /\ pending < MaxPending
                /\ Len(chatHistory) + pending + 2 <= MaxHistory
                /\ chatHistory' = Append(chatHistory, [role |-> "user", text |-> text])
                /\ pending' = pending + 1
                /\ lastCall' = [Call("sendText", <<>>, <<>>, FALSE)
                                    EXCEPT !.text = text,
                                           !.emitted = <<text>>,
                                           !.trail = <<"onMessage", "push", "generateContent">>]
        /\ UNCHANGED <<client, isConnected, connectAsked, status>>
        /\ UNCHANGED <<session, others, audioContext, audioQueue, isPlaying,
                       loops, played, nextChunk>>
        /\ UNCHANGED apart

\* generateContent settles and a sendText goes on after its await: with a
\* response it pushes the model's text to this.chatHistory, as it is now, and
\* emits the assistant's message; with a throw it hands an Error to onError.
\* Nothing of this looks at this.client or this.isConnected.
generateContentSettles ==
    /\ pending > 0
    /\ pending' = pending - 1
    /\ \/ \E text \in ResponseTexts :
            LET responseText == IF text = "" THEN Sorry ELSE text
            IN  /\ chatHistory' = Append(chatHistory, [role |-> "model", text |-> responseText])
                /\ lastCall' = [Call("generateContent", <<>>, <<>>, FALSE)
                                    EXCEPT !.emitted = <<responseText>>,
                                           !.trail = <<"push", "onMessage">>]
       \/ \E err \in RequestErrors :
            /\ UNCHANGED chatHistory
            /\ lastCall' = [Call("generateContent", <<>>, <<requestErrorMessage(err)>>, FALSE)
                                EXCEPT !.trail = <<"onError">>]
    /\ UNCHANGED <<client, isConnected, connectAsked, status>>
    /\ UNCHANGED <<session, others, audioContext, audioQueue, isPlaying,
                   loops, played, nextChunk>>
    /\ UNCHANGED apart

\* disconnect(): resets isConnected, the history and the client and reports
\* 'disconnected'.  The requests in flight are left alone.
disconnect_fallback ==
    /\ isConnected' = FALSE
    /\ chatHistory' = <<>>
    /\ client' = "null"
    /\ connectAsked' = FALSE
    /\ status' = "disconnected"
    /\ lastCall' = Call("disconnect", <<"disconnected">>, <<>>, FALSE)
    /\ UNCHANGED pending
    /\ UNCHANGED <<session, others, audioContext, audioQueue, isPlaying,
                   loops, played, nextChunk>>
    /\ UNCHANGED apart

\* What the caller of this client keeps.
bystander == <<messages, ui, inbound, chunkLog, codec>>

NextFallback ==
    \/ connect_fallback /\ UNCHANGED bystander
    \/ sendText_fallback /\ UNCHANGED bystander
    \/ generateContentSettles /\ UNCHANGED bystander
    \/ disconnect_fallback /\ UNCHANGED bystander

SpecFallback == Init /\ [][NextFallback]_vars

\* ------------------------------------------------- the VoiceChat component
\* The message of the error getApiConfig() throws when the server has no
\* GEMINI_API_KEY; the server function hands it to its caller.
ConfigError == "GEMINI_API_KEY environment variable is not set"

\* The error onStatusChange('disconnected') sets for a close it takes as
\* unexpected.
ConnectionLost ==
    [message |-> "Connection Lost",
     details |-> "The connection was unexpectedly closed. You can try reconnecting.",
     recoverable |-> TRUE]

\* A handler of the component: what it did, in order.
UiCall(op, trail, threw) ==
    [Call(op, <<>>, <<>>, threw) EXCEPT !.trail = trail, !.liveBefore = LiveSessions]

\* The client's fields and histories, for the handlers that leave them alone.
clientVars ==
    <<session, others, audioContext, audioQueue, isPlaying, loops, status,
      played, nextChunk, cancelled, mediaRecorder, starting, captureAsked, reading>>

\* A Connect button that invokes retry whenever the status is 'error'.
VoiceChat_connectRetries ==
    /\ uiStatus \in {"disconnected", "error"}
    /\ parsed = NotParsed \/ parsed.recoverable
    /\ fetching < MaxFetches
    /\ fetching' = fetching + 1
    /\ rawError' = ""
    /\ parsed' = NotParsed
    /\ uiStatus' = "connecting"
    /\ lastCall' = UiCall("VoiceChat.connect", <<"getApiConfig">>, FALSE)
    /\ UNCHANGED <<hasClient, messages, inbound, chunkLog, codec, fallback, isRecording>>
    /\ UNCHANGED clientVars
    /\ retryCount' = IF uiStatus = "error" THEN retryCount + 1 ELSE retryCount
    /\ captured' = captured \cup {uiStatus}
    /\ uiTrail' = <<"connecting">>

\* The Connect button (shown while the status is 'disconnected' or 'error',
\* disabled by an error that is not recoverable): retry, which increments
\* retryCount first, when retryCount is positive, connect otherwise; connect()
\* up to its await of getApiConfig().  The callbacks it will set read the
\* status of this render.
VoiceChat_connect ==
    /\ uiStatus \in {"disconnected", "error"}
    /\ parsed = NotParsed \/ parsed.recoverable
    /\ fetching < MaxFetches
    /\ fetching' = fetching + 1
    /\ rawError' = ""
    /\ parsed' = NotParsed
    /\ uiStatus' = "connecting"
    /\ lastCall' = UiCall("VoiceChat.connect", <<"getApiConfig">>, FALSE)
    /\ UNCHANGED <<hasClient, messages, inbound, chunkLog, codec, fallback, isRecording>>
    /\ UNCHANGED clientVars
    /\ retryCount' = IF retryCount > 0 THEN retryCount + 1 ELSE retryCount
    /\ captured' = captured \cup {uiStatus}
    /\ uiTrail' = <<"connecting">>

\* A connect() whose failed getApiConfig() reaches it without the server's
\* message.
getApiConfigThrowsOpaque ==
    /\ fetching > 0
    /\ fetching' = fetching - 1
    /\ rawError' = "Internal Server Error"
    /\ parsed' = parseError(rawError')
    /\ uiStatus' = "error"
    /\ lastCall' = UiCall("getApiConfig", <<"throw", "parseError">>, TRUE)
    /\ UNCHANGED <<hasClient, messages, inbound, chunkLog, codec, fallback, isRecording>>
    /\ UNCHANGED clientVars
    /\ uiTrail' = <<"error">>
    /\ UNCHANGED <<retryCount, captured>>

\* getApiConfig() rejects (the server has no credential): the catch block of
\* connect() classifies the error and sets the status 'error'.  No client has
\* been built.
getApiConfigThrows ==
    /\ fetching > 0
    /\ fetching' = fetching - 1
    /\ rawError' = ConfigError
    /\ parsed' = parseError(rawError')
    /\ uiStatus' = "error"
    /\ lastCall' = UiCall("getApiConfig", <<"throw", "parseError">>, TRUE)
    /\ UNCHANGED <<hasClient, messages, inbound, chunkLog, codec, fallback, isRecording>>
    /\ UNCHANGED clientVars
    /\ uiTrail' = <<"error">>
    /\ UNCHANGED <<retryCount, captured>>

\* `o` after the component replaces its client: the sessions that were
\* opening for the old client are stray.
Strayed(o) == [o EXCEPT !.opening = 0, !.stray = @ + o.opening]

\* getApiConfig() returns the key: connect() builds a new GeminiLiveClient
\* (the one clientRef held, if any, is dropped as it is), sets its callbacks
\* and calls client.connect(apiKey), which runs up to its await.  A throw of
\* client.connect reaches the component's onError and onStatusChange first
\* and then the catch block of connect().  The new client has no recorder
\* and no startAudioStream() or chunk callback under way; those of the old
\* client stay with it and are not followed.
getApiConfigReturns ==
    \E setupThrows \in BOOLEAN :
        LET left == Strayed(Dropped(others, session))
        IN  /\ fetching > 0
            /\ LiveSessions < MaxSessions
            /\ fetching' = fetching - 1
            /\ hasClient' = TRUE
            /\ session' = "null"
            /\ audioQueue' = <<>>
            /\ isPlaying' = FALSE
            /\ IF setupThrows
               THEN /\ others' = left
                    /\ audioContext' = "null"
                    /\ status' = "disconnected"
                    /\ rawError' = SdkError
                    /\ parsed' = parseError(rawError')
                    /\ uiStatus' = "error"
                    /\ lastCall' =
                           [UiCall("getApiConfig",
                                   <<"new GeminiLiveClient", "client.connect", "throw", "parseError">>,
                                   FALSE)
                            EXCEPT !.statuses = <<"connecting", "disconnected">>,
                                   !.errors = <<SdkError>>]
               ELSE /\ others' = Plus(left, "opening")
                    /\ audioContext' = "running"
                    /\ status' = "connecting"
                    /\ uiStatus' = "connecting"
                    /\ lastCall' =
                           [UiCall("getApiConfig",
                                   <<"new GeminiLiveClient", "client.connect", "live.connect">>,
                                   FALSE)
                            EXCEPT !.statuses = <<"connecting">>]
                    /\ UNCHANGED <<rawError, parsed>>
            /\ mediaRecorder' = "null"
            /\ starting' = 0
            /\ captureAsked' = FALSE
            /\ reading' = 0
            /\ UNCHANGED <<loops, played, nextChunk, cancelled, messages, inbound,
                           chunkLog, codec, fallback, isRecording>>
            /\ uiTrail' = IF setupThrows
                         THEN <<"connecting", "error", "disconnected", "error">>
                         ELSE <<"connecting">>
            /\ UNCHANGED <<retryCount, captured>>

\* client.onStatusChange('connected'): the status is 'connected' and the
\* error banner is cleared.
onopen_ui ==
    /\ onopen
    /\ uiStatus' = "connected"
    /\ rawError' = ""
    /\ parsed' = NotParsed
    /\ UNCHANGED <<hasClient, fetching, messages, inbound, chunkLog, codec, fallback, isRecording>>
    /\ retryCount' = 0
    /\ uiTrail' = <<"connected">>
    /\ UNCHANGED captured

\* The same for a stray session: it opens for a client the component has
\* dropped, whose callbacks still set the component's state.
onopen_stray ==
    /\ others.stray > 0
    /\ others' = Plus(Minus(others, "stray"), "open")
    /\ uiStatus' = "connected"
    /\ rawError' = ""
    /\ parsed' = NotParsed
    /\ lastCall' = Call("onopen", <<"connected">>, <<>>, FALSE)
    /\ UNCHANGED <<hasClient, fetching, messages, inbound, chunkLog, codec, fallback, isRecording>>
    /\ UNCHANGED <<session, audioContext, audioQueue, isPlaying, loops, status,
                   played, nextChunk, cancelled, mediaRecorder, starting, captureAsked, reading>>
    /\ retryCount' = 0
    /\ uiTrail' = <<"connected">>
    /\ UNCHANGED captured

\* live.connect rejects: client.onError, client.onStatusChange('disconnected')
\* and then the catch block of the component's connect().
connectCatch_ui ==
    /\ connectCatch
    /\ rawError' = SdkError
    /\ parsed' = parseError(rawError')
    /\ uiStatus' = "error"
    /\ UNCHANGED <<hasClient, fetching, messages, inbound, chunkLog, codec, fallback, isRecording>>
    /\ uiTrail' = <<"error", "disconnected", "error">>
    /\ UNCHANGED <<retryCount, captured>>

\* callbacks.onerror of a session: client.onError classifies the message
\* and sets the status 'error'; the session stays as it is.
onerror_ui ==
    /\ onerror
    /\ rawError' = lastCall'.errors[1]
    /\ parsed' = parseError(rawError')
    /\ uiStatus' = "error"
    /\ UNCHANGED <<hasClient, fetching, messages, inbound, chunkLog, codec, fallback, isRecording>>
    /\ uiTrail' = <<"error">>
    /\ UNCHANGED <<retryCount, captured>>

\* A component that calls connect() again when a session closes.
onclose_uiRetries(which) ==
    /\ onclose(which)
    /\ rawError' = ""
    /\ parsed' = NotParsed
    /\ uiStatus' = "connecting"
    /\ fetching < MaxFetches
    /\ fetching' = fetching + 1
    /\ UNCHANGED <<hasClient, messages, inbound, chunkLog, codec, fallback, isRecording>>
    /\ uiTrail' = <<"disconnected", "connecting">>
    /\ UNCHANGED <<retryCount, captured>>

\* A client that reports 'disconnected' before the error of the close.
onclose_uiStatusFirst(which) ==
    \E seen \in captured :
        /\ onclose(which)
        /\ IF lastCall'.errors # <<>>
           THEN /\ rawError' = lastCall'.errors[1]
                /\ parsed' = parseError(rawError')
                /\ uiStatus' = "error"
           ELSE /\ UNCHANGED rawError
                /\ parsed' = IF seen = "connected" THEN ConnectionLost ELSE parsed
                /\ uiStatus' = "disconnected"
        /\ uiTrail' = <<"disconnected">>
                          \o (IF lastCall'.errors # <<>> THEN <<"error">> ELSE <<>>)
        /\ UNCHANGED <<hasClient, fetching, messages, inbound, chunkLog, codec, fallback, isRecording>>
        /\ UNCHANGED <<retryCount, captured>>

\* A close event: client.onError for a code other than 1000 (the status is
\* set to 'error'), then client.onStatusChange('disconnected'), which sets
\* the 'Connection Lost' error when `status` is 'connected'.  The `status`
\* the callback reads is the one of the render whose connect() built the
\* client: one of the values in `captured`.
onclose_ui(which) ==
    \E seen \in captured :
        /\ onclose(which)
        /\ IF lastCall'.errors # <<>>
           THEN rawError' = lastCall'.errors[1]
           ELSE UNCHANGED rawError
        /\ parsed' = IF seen = "connected" THEN ConnectionLost
                     ELSE IF lastCall'.errors # <<>> THEN parseError(rawError')
                     ELSE parsed
        /\ uiStatus' = "disconnected"
        /\ uiTrail' = (IF lastCall'.errors # <<>> THEN <<"error">> ELSE <<>>)
                          \o <<"disconnected">>
        /\ UNCHANGED <<hasClient, fetching, messages, inbound, chunkLog, codec, fallback, isRecording>>
        /\ UNCHANGED <<retryCount, captured>>

\* The Disconnect and Cancel buttons (shown while the status is 'connected'
\* or 'connecting'): disconnect() of the client clientRef holds, if any,
\* which is then dropped, and the error banner is cleared.
VoiceChat_disconnect ==
    /\ uiStatus \in {"connected", "connecting"}
    /\ IF hasClient
       THEN /\ disconnect
            /\ uiStatus' = "disconnected"
       ELSE /\ lastCall' = UiCall("VoiceChat.disconnect", <<>>, FALSE)
            /\ UNCHANGED uiStatus
            /\ UNCHANGED clientVars
    /\ hasClient' = FALSE
    /\ rawError' = ""
    /\ parsed' = NotParsed
    /\ isRecording' = FALSE
    /\ UNCHANGED <<fetching, messages, inbound, chunkLog, codec, fallback>>
    /\ uiTrail' = IF hasClient THEN <<"disconnected">> ELSE <<>>
    /\ UNCHANGED <<retryCount, captured>>

\* The component and the clients it builds, without frames and sends.
NextUI ==
    \/ VoiceChat_connect
    \/ getApiConfigThrows
    \/ getApiConfigReturns
    \/ onopen_ui
    \/ onopen_stray
    \/ connectCatch_ui
    \/ onerror_ui
    \/ \E which \in {"session", "opening", "open", "closing", "stray"} : onclose_ui(which)
    \/ VoiceChat_disconnect
    \/ dismiss

SpecUI == Init /\ [][NextUI]_vars

\* ------------------------------------- VoiceChat with the capturing client
\* The ConnectionError toggleRecording shows when startAudioStream() rejects.
MicrophoneError ==
    [message |-> "Microphone Access Denied",
     details |-> "Please allow microphone access to use voice chat.",
     recoverable |-> TRUE]

\* The microphone button: nothing without a client or while the status is
\* not 'connected'; while recording, stopAudioStream() and the tracks of the
\* stream are stopped; otherwise startAudioStream() is called and awaited.
toggleRecording ==
    /\ hasClient
    /\ uiStatus = "connected"
    /\ IF isRecording
       THEN /\ stopAudioStream
            /\ isRecording' = FALSE
       ELSE /\ startAudioStream
            /\ UNCHANGED isRecording
    /\ UNCHANGED <<messages, rawError, parsed, uiStatus, hasClient, fetching,
                   inbound, chunkLog, codec, fallback>>
    /\ uiTrail' = <<>>
    /\ UNCHANGED <<retryCount, captured>>

\* A component that treats a failed startAudioStream() like a failed
\* connect(): it classifies the error and sets the status 'error'.
toggleRecordingResumesAsError ==
    \E granted \in BOOLEAN :
        /\ startAudioStreamResumes(granted)
        /\ lastCall' = Call("startAudioStream", <<>>, <<>>, ~granted)
        /\ IF granted
           THEN /\ isRecording' = TRUE
                /\ UNCHANGED <<rawError, parsed, uiStatus>>
           ELSE /\ rawError' = "Permission denied"
                /\ parsed' = parseError(rawError')
                /\ uiStatus' = "error"
                /\ UNCHANGED isRecording
        /\ UNCHANGED <<messages, hasClient, fetching, inbound, chunkLog, codec, fallback>>
        /\ uiTrail' = IF granted THEN <<>> ELSE <<"error">>
        /\ UNCHANGED <<retryCount, captured>>

\* startAudioStream() settles and toggleRecording goes on: with the stream it
\* keeps it in audioStreamRef and sets isRecording; the catch block of a
\* rejected call sets the 'Microphone Access Denied' error and nothing else.
toggleRecordingResumes ==
    \E granted \in BOOLEAN :
        /\ startAudioStreamResumes(granted)
        /\ lastCall' = Call("startAudioStream", <<>>, <<>>, ~granted)
        /\ IF granted
           THEN /\ isRecording' = TRUE
                /\ UNCHANGED parsed
           ELSE /\ parsed' = MicrophoneError
                /\ UNCHANGED isRecording
        /\ UNCHANGED <<messages, rawError, uiStatus, hasClient, fetching,
                       inbound, chunkLog, codec, fallback>>
        /\ uiTrail' = <<>>
        /\ UNCHANGED <<retryCount, captured>>

\* The Disconnect and Cancel buttons with the capturing client: a throw of
\* its disconnect() leaves the handler before anything else is done.
VoiceChat_disconnect_capture ==
    /\ uiStatus \in {"connected", "connecting"}
    /\ IF hasClient
       THEN /\ disconnect_capture
            /\ IF lastCall'.threw
               THEN UNCHANGED <<hasClient, rawError, parsed, isRecording, uiStatus>>
               ELSE /\ uiStatus' = "disconnected"
                    /\ hasClient' = FALSE
                    /\ rawError' = ""
                    /\ parsed' = NotParsed
                    /\ isRecording' = FALSE
       ELSE /\ lastCall' = UiCall("VoiceChat.disconnect", <<>>, FALSE)
            /\ UNCHANGED clientVars
            /\ hasClient' = FALSE
            /\ rawError' = ""
            /\ parsed' = NotParsed
            /\ isRecording' = FALSE
            /\ UNCHANGED uiStatus
    /\ UNCHANGED <<fetching, messages, inbound, chunkLog, codec, fallback>>
    /\ uiTrail' = IF hasClient /\ ~lastCall'.threw THEN <<"disconnected">> ELSE <<>>
    /\ UNCHANGED <<retryCount, captured>>

\* A close event at the capturing client, whose callbacks.onclose only
\* reports 'disconnected': the component sets the status; nothing stops the
\* recorder or resets isRecording.
onclose_mic ==
    \E seen \in captured :
        /\ onclose_capture("session")
        /\ parsed' = IF seen = "connected" THEN ConnectionLost ELSE parsed
        /\ uiStatus' = "disconnected"
        /\ uiTrail' = <<"disconnected">>
        /\ UNCHANGED <<rawError, hasClient, fetching, messages, inbound, chunkLog,
                       codec, fallback, isRecording, retryCount, captured>>

NextMic ==
    \/ VoiceChat_connect
    \/ getApiConfigReturns
    \/ onopen_ui
    \/ toggleRecording
    \/ toggleRecordingResumes
    \/ onclose_mic
    \/ VoiceChat_disconnect_capture
    \/ dismiss

SpecMic == Init /\ [][NextMic]_vars

\* ------------------------------------------------- the base64 conversions
\* The bytes the buffers are drawn from: both ends of the range, both sides
\* of the sign bit, and a byte whose sextets are all different.
ByteSamples == {0, 1, 127, 128, 255}

RECURSIVE SeqsUpTo(_, _)
\* The sequences over S of length n at most.
SeqsUpTo(S, n) ==
    IF n = 0 THEN {<<>>}
    ELSE LET shorter == SeqsUpTo(S, n - 1)
         IN  shorter \cup {Append(q, x) : q \in {r \in shorter : Len(r) = n - 1}, x \in S}

Buffers == SeqsUpTo(ByteSamples, MaxBytes)

\* The base64 alphabet of btoa and atob: the character of sextet v is
\* Alphabet[v + 1].
Alphabet ==
    <<"A", "B", "C", "D", "E", "F", "G", "H", "I", "J", "K", "L", "M", "N", "O", "P",
      "Q", "R", "S", "T", "U", "V", "W", "X", "Y", "Z", "a", "b", "c", "d", "e", "f",
      "g", "h", "i", "j", "k", "l", "m", "n", "o", "p", "q", "r", "s", "t", "u", "v",
      "w", "x", "y", "z", "0", "1", "2", "3", "4", "5", "6", "7", "8", "9", "+", "/">>
Sextet(c) == CHOOSE v \in 0..63 : Alphabet[v + 1] = c

\* A string is the sequence of its UTF-16 code units.  A fromCharCode that
\* keeps seven bits of its argument.
fromCharCodeAscii(n) == n % 128

\* String.fromCharCode(n): the one code unit n modulo 2^16.
fromCharCode(n) == n % 65536

\* binaryString.charCodeAt(i - 1)
charCodeAt(str, i) == str[i]

\* bytes[i] = v of a Uint8Array: the value modulo 2^8.
Uint8(v) == v % 256

RECURSIVE btoa(_)
\* btoa(binary), for code units below 256: three of them give four
\* characters; a rest of one or two is padded with '='.
btoa(binary) ==
    IF Len(binary) = 0 THEN <<>>
    ELSE LET b1 == binary[1]
             b2 == IF Len(binary) >= 2 THEN binary[2] ELSE 0
             b3 == IF Len(binary) >= 3 THEN binary[3] ELSE 0
             c1 == Alphabet[(b1 \div 4) + 1]
             c2 == Alphabet[((b1 % 4) * 16 + (b2 \div 16)) + 1]
             c3 == Alphabet[((b2 % 16) * 4 + (b3 \div 64)) + 1]
             c4 == Alphabet[(b3 % 64) + 1]
         IN  IF Len(binary) = 1 THEN <<c1, c2, "=", "=">>
             ELSE IF Len(binary) = 2 THEN <<c1, c2, c3, "=">>
             ELSE <<c1, c2, c3, c4>> \o btoa(SubSeq(binary, 4, Len(binary)))

RECURSIVE atob(_)
\* atob(str), for a padded string of whole groups: four characters give
\* three code units, a group that ends in '=' two, in '==' one.
atob(str) ==
    IF Len(str) < 4 THEN <<>>
    ELSE LET v1 == Sextet(str[1])
             v2 == Sextet(str[2])
             u1 == v1 * 4 + (v2 \div 16)
             rest == atob(SubSeq(str, 5, Len(str)))
         IN  IF str[3] = "=" THEN <<u1>>
             ELSE LET v3 == Sextet(str[3])
                      u2 == (v2 % 16) * 16 + (v3 \div 4)
                  IN  IF str[4] = "=" THEN <<u1, u2>>
                      ELSE <<u1, u2, (v3 % 4) * 64 + Sextet(str[4])>> \o rest

\* arrayBufferToBase64(buffer): one character per byte, then btoa.
arrayBufferToBase64(bytes) ==
    btoa([i \in 1..Len(bytes) |-> fromCharCode(bytes[i])])

\* base64ToArrayBuffer(base64): atob, then one byte per character.
base64ToArrayBuffer(str) ==
    LET binaryString == atob(str)
    IN  [i \in 1..Len(binaryString) |-> Uint8(charCodeAt(binaryString, i))]

\* Any buffer of the sample bytes may be the one that is converted.
InitCodec ==
    /\ session = "null"
    /\ others = NoOthers
    /\ audioContext = "null"
    /\ audioQueue = <<>>
    /\ isPlaying = FALSE
    /\ loops = <<>>
    /\ status = "disconnected"
    /\ played = <<>>
    /\ nextChunk = 0
    /\ lastCall = NoCall
    /\ cancelled = {}
    /\ mediaRecorder = "null"
    /\ rawError = ""
    /\ parsed = NotParsed
    /\ messages = <<>>
    /\ uiStatus = "disconnected"
    /\ hasClient = FALSE
    /\ fetching = 0
    /\ inbound = <<>>
    /\ chunkLog = <<>>
    /\ starting = 0
    /\ captureAsked = FALSE
    /\ reading = 0
    /\ isRecording = FALSE
    /\ buffer \in Buffers
    /\ base64 = <<>>
    /\ decoded = <<>>
    /\ client = "null"
    /\ isConnected = FALSE
    /\ chatHistory = <<>>
    /\ pending = 0
    /\ connectAsked = FALSE
    /\ retryCount = 0
    /\ captured = {}
    /\ uiTrail = <<>>

\* The buffer is encoded, as a captured chunk is before it is sent.
encode ==
    /\ base64' = arrayBufferToBase64(buffer)
    /\ lastCall' = Call("arrayBufferToBase64", <<>>, <<>>, FALSE)
    /\ UNCHANGED <<buffer, decoded>>
    /\ UNCHANGED <<clientVars, ui, messages, inbound, chunkLog, fallback>>

\* The string is decoded, as the data of an audio part is before it is queued.
decode ==
    /\ lastCall.op = "arrayBufferToBase64"
    /\ decoded' = base64ToArrayBuffer(base64)
    /\ lastCall' = Call("base64ToArrayBuffer", <<>>, <<>>, FALSE)
    /\ UNCHANGED <<buffer, base64>>
    /\ UNCHANGED <<clientVars, ui, messages, inbound, chunkLog, fallback>>

NextCodec ==
    \/ encode
    \/ decode

SpecCodec == InitCodec /\ [][NextCodec]_vars

\* --------------------------------------------------- frame by frame
\* handleMessage with what it did kept for inspection: the frame, the texts
\* it handed to this.onMessage, the queue and the number of drain loops
\* before it.
receiveFrame(frame) ==
    /\ handleFrame(frame)
    /\ lastCall' = [Call("handleMessage", <<>>, <<>>, FALSE)
                        EXCEPT !.frame = frame,
                               !.emitted = frameEffects(frame).texts,
                               !.queueBefore = audioQueue,
                               !.loopsBefore = Len(loops),
                               !.chunksBefore = nextChunk,
                               !.playingBefore = isPlaying]

\* Any frame arrives on an open session.
receive == \E frame \in AllFrames : receiveFrame(frame)

NextFrames ==
    \/ connect /\ UNCHANGED caller
    \/ onopen /\ UNCHANGED caller
    \/ receive /\ UNCHANGED caller
    \/ \E l \in 1..MaxChunks : onended(l) /\ UNCHANGED caller

SpecFrames == Init /\ [][NextFrames]_vars

\* The same for the capture variant.
receiveFrame_capture(frame) ==
    /\ handleFrame_capture(frame)
    /\ lastCall' = [Call("handleMessage", <<>>, <<>>, FALSE)
                        EXCEPT !.frame = frame,
                               !.emitted = frameEffects_capture(frame).texts,
                               !.queueBefore = audioQueue,
                               !.loopsBefore = Len(loops),
                               !.chunksBefore = nextChunk,
                               !.playingBefore = isPlaying]

receive_capture == \E frame \in AllFrames : receiveFrame_capture(frame)

NextFramesCapture ==
    \/ connect_capture /\ UNCHANGED caller
    \/ onopen_capture /\ UNCHANGED caller
    \/ receive_capture /\ UNCHANGED caller
    \/ \E l \in 1..MaxChunks : onended_capture(l) /\ UNCHANGED caller

SpecFramesCapture == Init /\ [][NextFramesCapture]_vars

\* ------------------------------------------------- a caller that listens
\* The frames a conversation in text is made of: the setupComplete marker,
\* and serverContent frames with one or two text parts, or a text part and
\* an audio part, with or without the markers.
TextTurns == {<<Hel>>, <<Lo, Audio>>, <<Hel, Lo>>}

TextFrames ==
    {[setupComplete |-> TRUE, serverContent |-> FALSE, interrupted |-> FALSE,
      turnComplete |-> FALSE, parts |-> <<>>]}
    \cup
    [setupComplete : {FALSE}, serverContent : {TRUE}, interrupted : BOOLEAN,
     turnComplete : BOOLEAN, parts : TextTurns]

\* The ChatMessages handleMessage builds for the texts it emits.
Assistant(texts) ==
    [i \in 1..Len(texts) |-> [role |-> "assistant", content |-> texts[i]]]

\* A frame arrives at the client of a VoiceChat component: each ChatMessage
\* handed to client.onMessage is appended to the component's messages.
receiveText ==
    \E frame \in TextFrames :
        /\ Len(inbound) < MaxFrames
        /\ receiveFrame(frame)
        /\ inbound' = Append(inbound, frame)
        /\ messages' = messages \o Assistant(frameEffects(frame).texts)
        /\ UNCHANGED ui
        /\ UNCHANGED <<chunkLog, codec, fallback>>

NextTexts ==
    \/ connect /\ UNCHANGED caller
    \/ onopen /\ UNCHANGED caller
    \/ receiveText
    \/ \E l \in 1..MaxChunks : onended(l) /\ UNCHANGED caller

SpecTexts == Init /\ [][NextTexts]_vars

\* ------------------------------------------------- the drain, watched
\* The loop that awaits the end of a buffer, 0 when there is none.
Awaited == IF ActiveLoops = {} THEN 0 ELSE CHOOSE l \in ActiveLoops : TRUE

\* The log after a frame: a frame that calls playQueuedAudio comes after
\* every chunk enqueued so far; the chunks a frame enqueues are logged with
\* the loop that awaits a buffer's end at that moment.
logFrame(frame) ==
    LET does == frameEffects(frame)
    IN  IF does.drain
        THEN [i \in 1..Len(chunkLog) |-> [chunkLog[i] EXCEPT !.turnAfter = TRUE]]
        ELSE chunkLog \o [i \in 1..Len(does.audio) |->
                             [during |-> Awaited, turnAfter |-> FALSE,
                              ok |-> NewChunks(does.audio)[i].ok]]

\* A frame of a model turn arrives.
watchFrame ==
    \E frame \in Frames :
        /\ receiveFrame(frame)
        /\ chunkLog' = logFrame(frame)
        /\ UNCHANGED <<codec, fallback>>
        /\ UNCHANGED <<messages, inbound>>
        /\ UNCHANGED ui

\* source.onended, with the queue and the flags before it kept.
watchEnded(l) ==
    /\ endedLoop(l)
    /\ lastCall' = [Call("onended", <<>>, <<>>, FALSE)
                        EXCEPT !.queueBefore = audioQueue,
                               !.loopsBefore = Len(loops),
                               !.chunksBefore = nextChunk,
                               !.playingBefore = isPlaying]
    /\ UNCHANGED caller

NextDrain ==
    \/ connect /\ UNCHANGED caller
    \/ onopen /\ UNCHANGED caller
    \/ watchFrame
    \/ \E l \in 1..MaxChunks : watchEnded(l)

SpecDrain == Init /\ [][NextDrain]_vars

\* The same, where every buffer that was started signals its end: a drain
\* loop that awaits is resumed at last.
SpecDrainLive ==
    SpecDrain /\ WF_vars(\E l \in 1..MaxChunks : watchEnded(l))

\* =================================================================== claims
\* The statuses the caller saw around the last handler: the one before it,
\* then those it reported, in order.
StatusChain == <<lastCall.statusBefore>> \o lastCall.statuses

\* C1: at most one Transport Session opened by the client is open at a time,
\* after any sequence of connect(), disconnect() and transport events.
C1_AtMostOneOpenSession == OpenSessions <= 1

\* C2: chunks start playing in the order they were enqueued: the ids of the
\* started chunks increase, no chunk still queued is older than a started
\* one, and the queue itself is in enqueue order.
C2_PlaybackFifo ==
    /\ \A i, j \in 1..Len(played) : i < j => played[i][1] < played[j][1]
    /\ \A i \in 1..Len(played), k \in 1..Len(audioQueue) :
           played[i][1] < audioQueue[k].id
    /\ \A j, k \in 1..Len(audioQueue) : j < k => audioQueue[j].id < audioQueue[k].id

\* C2 witness: a second chunk started when the first one's buffer ended.
C2_Witness ==
    /\ Len(played) >= 2
    /\ lastCall.op = "onended"
    /\ played[Len(played)][2] = played[1][2]

\* C3: at every instant at most one playQueuedAudio drain loop is active.
C3_AtMostOneDrainLoop == Cardinality(ActiveLoops) <= 1

\* C4: 'connected' is reported only by the onopen callback and only when the
\* status reported before it was 'connecting'.
C4_ConnectedOnlyAfterConnecting ==
    \A i \in 2..Len(StatusChain) :
        StatusChain[i] = "connected" =>
            /\ lastCall.op = "onopen"
            /\ StatusChain[i - 1] = "connecting"

\* C5: disconnect() called while the status is 'connecting', or right after
\* a disconnect (status 'disconnected'), does not throw, reports
\* 'disconnected' and leaves the status 'disconnected'.
C5_DisconnectWhileConnecting ==
    (lastCall.op = "disconnect" /\ lastCall.statusBefore \in {"connecting", "disconnected"})
        => /\ ~lastCall.threw
           /\ lastCall.statuses = <<"disconnected">>
           /\ status = "disconnected"

\* C5 witness: disconnect() was called while connect() awaited the transport.
C5_Witness ==
    /\ lastCall.op = "disconnect"
    /\ lastCall.statusBefore = "connecting"
    /\ others.opening > 0
    /\ ~lastCall.threw

\* C6: right after disconnect() returns the queue is empty, isPlaying is
\* false and the client holds no session, and a chunk that was queued and not
\* yet dequeued at a disconnect() is never played.
C6_DisconnectClearsPlayback ==
    /\ (lastCall.op = "disconnect" /\ ~lastCall.threw)
           => (audioQueue = <<>> /\ ~isPlaying /\ session = "null")
    /\ \A i \in 1..Len(played) : played[i][1] \notin cancelled

\* C7: a close event with code 1000 invokes no onError, one with any other
\* code invokes onError exactly once with a non-empty message, and both
\* report 'disconnected'.
C7_CloseReportsError ==
    lastCall.op = "onclose" =>
        /\ lastCall.statuses = <<"disconnected">>
        /\ lastCall.code = 1000 => lastCall.errors = <<>>
        /\ lastCall.code # 1000 =>
               (Len(lastCall.errors) = 1 /\ lastCall.errors[1] # "")

\* C8: the text a close event with a code other than 1000 is reported with:
\* fixed for 1006, 1008 and 1011 whatever the reason; for any other code the
\* reason passed through, or the generic text when there is no reason.
C8_CloseCodeClassifier ==
    (lastCall.op = "onclose" /\ lastCall.code # 1000) =>
        LET text == lastCall.errors[1]
            fixed == lastCall.code \in {1006, 1008, 1011}
        IN  /\ Len(lastCall.errors) = 1
            /\ lastCall.code = 1006 => includes(text, "closed abnormally")
            /\ lastCall.code = 1008 => includes(text, "Policy violation")
            /\ lastCall.code = 1011 => includes(text, "Server error")
            /\ (fixed /\ lastCall.reason # "") => ~includes(text, lastCall.reason)
            /\ (~fixed /\ lastCall.reason # "") => includes(text, lastCall.reason)
            /\ (~fixed /\ lastCall.reason = "") => text = "Connection closed"

\* C8 witness: a fixed code came with a reason of the server's.
C8_Witness ==
    /\ lastCall.op = "onclose"
    /\ lastCall.code = 1008
    /\ lastCall.reason # ""

\* The classifier's rules, each by its keywords.
RuleApiKey(m) ==
    \E kw \in {"API_KEY", "apiKey", "environment variable"} : includes(m, kw)
RuleConnection(m) ==
    \E kw \in {"WebSocket", "connection", "network"} : includes(m, kw)
RuleAuth(m) ==
    \E kw \in {"401", "403", "unauthorized", "forbidden"} : includes(m, kw)
RuleRate(m) == \E kw \in {"429", "rate", "quota"} : includes(m, kw)
RuleModel(m) ==
    \E kw \in {"model", "not found", "unavailable"} : includes(m, kw)

\* The label of the earliest rule that matches m.
FirstLabel(m) ==
    CASE RuleApiKey(m) -> "API Key Not Configured"
      [] ~RuleApiKey(m) /\ RuleConnection(m) -> "Connection Failed"
      [] ~RuleApiKey(m) /\ ~RuleConnection(m) /\ RuleAuth(m) -> "Authentication Error"
      [] ~RuleApiKey(m) /\ ~RuleConnection(m) /\ ~RuleAuth(m) /\ RuleRate(m) -> "Rate Limited"
      [] ~RuleApiKey(m) /\ ~RuleConnection(m) /\ ~RuleAuth(m) /\ ~RuleRate(m)
            /\ RuleModel(m) -> "Service Unavailable"
      [] OTHER -> "Connection Error"

\* C9: parseError returns the label of the earliest matching rule in the
\* order API-key, connection, authentication, rate-limit, model, default;
\* recoverable is false exactly for the API-key and authentication labels;
\* the default keeps the message as details, or a fallback for the empty one.
C9_FirstMatchWins ==
    parsed # NotParsed =>
        /\ parsed.message = FirstLabel(rawError)
        /\ parsed.recoverable =
               (parsed.message \notin {"API Key Not Configured", "Authentication Error"})
        /\ parsed.message = "Connection Error" =>
               /\ rawError # "" => parsed.details = rawError
               /\ rawError = "" => parsed.details # ""

\* C9 witness: a message of two categories got the label of the earlier one.
C9_Witness ==
    /\ rawError = "network 429"
    /\ parsed.message = "Connection Failed"
    /\ parsed.recoverable

\* C10 as claimed: every raw error text that contains "429" is classified
\* "Rate Limited" and recoverable.
C10_Every429RateLimited ==
    (parsed # NotParsed /\ includes(rawError, "429")) =>
        (parsed.message = "Rate Limited" /\ parsed.recoverable)

\* C10 as amended: a raw error text that contains "429" and matches none of
\* the API-key, connection and authentication rules is classified
\* "Rate Limited" and recoverable, whatever the case of its other letters.
C10_429RateLimitedUnlessEarlierRule ==
    (/\ parsed # NotParsed
     /\ includes(rawError, "429")
     /\ ~RuleApiKey(rawError) /\ ~RuleConnection(rawError) /\ ~RuleAuth(rawError))
        => (parsed.message = "Rate Limited" /\ parsed.recoverable)

\* C10 witness: "429" beside a word in another letter case than a keyword.
C10_Witness ==
    /\ rawError = "Network 429"
    /\ parsed.message = "Rate Limited"

\* The letters, upper case and lower case, in the same order.
UpperCase == "ABCDEFGHIJKLMNOPQRSTUVWXYZ"
LowerCase == "abcdefghijklmnopqrstuvwxyz"

\* m with every upper-case letter replaced by its lower-case letter.
RECURSIVE Lower(_)
Lower(m) ==
    IF m = "" THEN ""
    ELSE LET c == SubSeq(m, 1, 1)
             up == {i \in 1..Len(UpperCase) : SubSeq(UpperCase, i, i) = c}
         IN  (IF up = {} THEN c
              ELSE LET i == CHOOSE i \in up : TRUE IN SubSeq(LowerCase, i, i))
             \o Lower(SubSeq(m, 2, Len(m)))

\* C11: two raw error texts that differ only in letter case are classified
\* to the same label and recoverable flag.
C11_CaseInsensitive ==
    parsed # NotParsed =>
        \A m \in RawErrors :
            Lower(m) = Lower(rawError) =>
                /\ parseError(m).message = parsed.message
                /\ parseError(m).recoverable = parsed.recoverable

\* String.prototype.trim, for texts of spaces and letters.
RECURSIVE Trim(_)
Trim(t) ==
    IF t = "" THEN ""
    ELSE IF SubSeq(t, 1, 1) = " " THEN Trim(SubSeq(t, 2, Len(t)))
    ELSE IF SubSeq(t, Len(t), Len(t)) = " " THEN Trim(SubSeq(t, 1, Len(t) - 1))
    ELSE t

\* The steps of the last handler, as a set.
Trail == {lastCall.trail[i] : i \in 1..Len(lastCall.trail)}

\* C12: sendText of an empty or blank text emits no ChatMessage and makes no
\* outbound sendClientContent call.
C12_BlankSendIsNoOp ==
    (lastCall.op = "sendText" /\ Trim(lastCall.text) = "") =>
        (lastCall.emitted = <<>> /\ "sendClientContent" \notin Trail)

\* C13: sendText called when the reported status is not 'connected' emits no
\* user ChatMessage and makes no outbound transport call.
C13_SendOnlyWhenConnected ==
    (lastCall.op = "sendText" /\ lastCall.statusBefore # "connected") =>
        (lastCall.emitted = <<>> /\ "sendClientContent" \notin Trail)

\* C14: when sendText forwards a text, the user ChatMessage was emitted
\* before the forward and is the last entry of the caller's list; when the
\* forward fails, the call throws and the message is still there.
C14_EmitBeforeForwardNoRollback ==
    (lastCall.op = "sendText" /\ "sendClientContent" \in Trail) =>
        /\ \E i, j \in 1..Len(lastCall.trail) :
               /\ i < j
               /\ lastCall.trail[i] = "onMessage"
               /\ lastCall.trail[j] = "sendClientContent"
        /\ messages # <<>>
        /\ messages[Len(messages)] = [role |-> "user", content |-> lastCall.text]
        /\ ("throw" \in Trail) = lastCall.threw

\* C14 witness: a forward failed after the user message was emitted.
C14_Witness ==
    /\ lastCall.op = "sendText"
    /\ lastCall.threw
    /\ lastCall.emitted = <<"hi">>
    /\ messages[Len(messages)].content = "hi"

\* C15: a connect attempt that finds no credential ends with the status
\* 'error' and the error 'API Key Not Configured', not recoverable, and
\* calls no live.connect: no session was added.
C15_MissingCredential ==
    (lastCall.op = "getApiConfig" /\ lastCall.threw) =>
        /\ uiStatus = "error"
        /\ parsed.message = "API Key Not Configured"
        /\ ~parsed.recoverable
        /\ "live.connect" \notin Trail
        /\ LiveSessions = lastCall.liveBefore

\* C15 witness: the first attempt of a component found no credential.
C15_Witness ==
    /\ lastCall.op = "getApiConfig"
    /\ lastCall.threw
    /\ rawError = ConfigError
    /\ ~hasClient
    /\ LiveSessions = 0

\* The last handler was handleMessage, and its frame got as far as the
\* serverContent checks.
Received == lastCall.op = "handleMessage" /\ lastCall.frame.serverContent
                /\ ~lastCall.frame.setupComplete

\* The last frame left the playback pipeline as it was: nothing enqueued,
\* nothing dequeued, no drain loop started.
PipelineUntouched ==
    /\ nextChunk = lastCall.chunksBefore
    /\ audioQueue = lastCall.queueBefore
    /\ Len(loops) = lastCall.loopsBefore
    /\ isPlaying = lastCall.playingBefore

\* C16: a frame marked interrupted emits no ChatMessage and enqueues no
\* chunk, even when it also carries parts or a turnComplete marker.
C16_InterruptedFrameIsDropped ==
    (Received /\ lastCall.frame.interrupted) =>
        /\ lastCall.emitted = <<>>
        /\ nextChunk = lastCall.chunksBefore

\* C17: a frame marked turnComplete (and not interrupted) starts the drain
\* when the queue holds chunks and no drain is running, and is done with:
\* none of its text parts is emitted and none of its audio parts enqueued.
C17_TurnCompleteOnlyDrains ==
    (Received /\ lastCall.frame.turnComplete /\ ~lastCall.frame.interrupted) =>
        /\ lastCall.emitted = <<>>
        /\ nextChunk = lastCall.chunksBefore
        /\ (~lastCall.playingBefore /\ lastCall.queueBefore # <<>>
                /\ audioContext # "null")
              => Len(loops) = lastCall.loopsBefore + 1

\* C18: a frame marked setupComplete causes no ChatMessage, no enqueue, no
\* drain and no status change, whatever else it carries.
C18_SetupCompleteIsSilent ==
    (lastCall.op = "handleMessage" /\ lastCall.frame.setupComplete) =>
        /\ lastCall.emitted = <<>>
        /\ PipelineUntouched
        /\ lastCall.statuses = <<>>
        /\ status = lastCall.statusBefore

\* A setupComplete frame that also carries serverContent with a turnComplete
\* marker arrives while chunks wait and nothing plays.
C18_Witness ==
    /\ lastCall.op = "handleMessage"
    /\ lastCall.frame.setupComplete
    /\ lastCall.frame.serverContent
    /\ lastCall.frame.turnComplete
    /\ ~lastCall.frame.interrupted
    /\ lastCall.frame.parts = <<Spoken>>
    /\ lastCall.queueBefore # <<>>
    /\ ~lastCall.playingBefore
    /\ audioContext # "null"

\* The frame's parts were looked at: no marker made handleMessage return
\* before them.
PartsHandled ==
    Received /\ ~lastCall.frame.interrupted /\ ~lastCall.frame.turnComplete

\* C20: a part is enqueued exactly when it is inline data with data whose
\* MIME type begins with 'audio/'; inline data of another MIME type and
\* parts of a kind the client does not know give no ChatMessage, no chunk and
\* no error.
C20_OnlyAudioIsEnqueued ==
    PartsHandled =>
        /\ nextChunk - lastCall.chunksBefore
               = Len(SelectSeq(lastCall.frame.parts, HasAudio))
        /\ Len(lastCall.emitted) = Len(SelectSeq(lastCall.frame.parts, HasText))
        /\ ~lastCall.threw
        /\ lastCall.errors = <<>>

\* The texts of the text parts of a modelTurn, in part order.
RECURSIVE TextParts(_)
TextParts(parts) ==
    IF parts = <<>> THEN <<>>
    ELSE (IF Head(parts).text # "" THEN <<Head(parts).text>> ELSE <<>>)
             \o TextParts(Tail(parts))

\* The texts of the text parts of the frames whose parts were handled, in
\* arrival order and, within a frame, in part order.
RECURSIVE TextsOf(_)
TextsOf(frames) ==
    IF frames = <<>> THEN <<>>
    ELSE LET f == Head(frames)
         IN  (IF f.serverContent /\ ~f.setupComplete /\ ~f.interrupted
                    /\ ~f.turnComplete
              THEN TextParts(f.parts) ELSE <<>>) \o TextsOf(Tail(frames))

\* C19: the assistant ChatMessages the caller got are, one per text part and
\* none merged, the text parts of the handled frames in arrival order and
\* part order.
C19_OneMessagePerTextPart ==
    messages = [i \in 1..Len(TextsOf(inbound)) |->
                   [role |-> "assistant", content |-> TextsOf(inbound)[i]]]

\* Three frames with one text part each arrived (one of them with an audio
\* part after the text), none with a marker: three assistant messages in
\* that order.
C19_Witness ==
    /\ Len(inbound) = 3
    /\ \A i \in 1..3 : /\ ~inbound[i].setupComplete
                       /\ ~inbound[i].interrupted
                       /\ ~inbound[i].turnComplete
    /\ inbound[1].parts = <<Hel>>
    /\ inbound[2].parts = <<Lo, Audio>>
    /\ inbound[3].parts = <<Hel>>
    /\ [i \in 1..Len(messages) |-> messages[i].content] = <<"Hel", "lo", "Hel">>

\* The chunks of a queue that convert and play.
Good(queue) == SelectSeq(queue, LAMBDA c : c.ok)

\* The last handler ran the while loop of playQueuedAudio: a frame that
\* started a drain, or the end of a buffer.
DrainStep ==
    \/ lastCall.op = "onended"
    \/ lastCall.op = "handleMessage" /\ Len(loops) > lastCall.loopsBefore

\* The chunks of a queue behind its first chunk that plays.
RECURSIVE BehindFirstGood(_)
BehindFirstGood(queue) ==
    IF queue = <<>> THEN <<>>
    ELSE IF Head(queue).ok THEN Tail(queue) ELSE BehindFirstGood(Tail(queue))

\* C21: a chunk that fails to play does not end the drain: the loop goes on
\* to the next chunk that plays, in queue order, resets isPlaying when the
\* queue runs empty, and reports nothing through onError.
C21_FailedChunkIsSkipped ==
    (DrainStep /\ lastCall.queueBefore # <<>> /\ ~Head(lastCall.queueBefore).ok) =>
        /\ lastCall.errors = <<>>
        /\ ~lastCall.threw
        /\ audioQueue = BehindFirstGood(lastCall.queueBefore)
        /\ IF Good(lastCall.queueBefore) = <<>>
           THEN audioQueue = <<>> /\ ~isPlaying
           ELSE /\ played # <<>>
                /\ played[Len(played)][1] = Head(Good(lastCall.queueBefore)).id

\* A drain whose first chunk fails played the chunk behind it.
C21_Witness ==
    /\ DrainStep
    /\ Len(lastCall.queueBefore) = 2
    /\ ~lastCall.queueBefore[1].ok
    /\ lastCall.queueBefore[2].ok
    /\ played = << <<lastCall.queueBefore[2].id, Len(loops)>> >>

\* The ids of the chunks handed to playback, in order.
PlayedIds == [i \in 1..Len(played) |-> played[i][1]]

\* C22: every chunk enqueued is handed to playback at most once, a chunk
\* that was dequeued is no longer in the queue, and a chunk dropped by
\* disconnect() is not played afterwards; under every interleaving of
\* enqueue, drain, disconnect and reconnect.
C22_PlayedAtMostOnce ==
    /\ \A i, j \in 1..Len(played) : i # j => PlayedIds[i] # PlayedIds[j]
    /\ \A i \in 1..Len(played) : /\ PlayedIds[i] \in 1..nextChunk
                                 /\ PlayedIds[i] \notin Ids(audioQueue)
                                 /\ PlayedIds[i] \notin cancelled
    /\ \A j, k \in 1..Len(audioQueue) : j # k => audioQueue[j].id # audioQueue[k].id
    /\ Ids(audioQueue) \cap cancelled = {}

\* Two chunks were played, each by a drain loop of its own, the second one
\* on a new session while the session disconnect() closed is still closing.
C22_Witness ==
    /\ Len(played) = 2
    /\ played[1][2] # played[2][2]
    /\ session = "open"
    /\ others.closing > 0

\* C23: no reconnection is automatic: a Transport Session is requested only
\* by the continuation of a connect() the user started with the Connect
\* button, never by a close event, a transport error or a failed connect.
C23_NoAutomaticReconnect ==
    [][/\ LiveSessions' > LiveSessions => lastCall'.op = "getApiConfig"
       /\ fetching' > fetching => lastCall'.op = "VoiceChat.connect"]_vars

\* A session closed with an error code, and nothing is opening or open and
\* no connect() is under way.
C23_Witness ==
    /\ lastCall.op = "onclose"
    /\ lastCall.errors # <<>>
    /\ hasClient
    /\ LiveSessions = 0
    /\ fetching = 0
    /\ uiStatus = "disconnected"

\* C24: the status 'error' is entered only from 'connecting' or 'connected',
\* and it is left only to 'disconnected', by a disconnect or a retry of the
\* user.
C24_ErrorEnteredAndLeft ==
    [][/\ (uiStatus' = "error" /\ uiStatus # "error")
              => uiStatus \in {"connecting", "connected"}
       /\ (uiStatus = "error" /\ uiStatus' # "error")
              => /\ uiStatus' = "disconnected"
                 /\ lastCall'.op \in {"VoiceChat.disconnect", "disconnect",
                                      "VoiceChat.connect"}]_vars

\* C25: when the transport open fails, connect() calls onError once, then
\* reports 'disconnected', then throws the error to its caller; 'connected'
\* is not reported for that attempt, and the component shows the failure.
C25_OpenFailureSurfaces ==
    lastCall.op = "connectCatch" =>
        /\ lastCall.errors = <<SdkError>>
        /\ lastCall.statuses = <<"disconnected">>
        /\ lastCall.trail = <<"onError", "onStatusChange", "throw">>
        /\ lastCall.threw
        /\ status = "disconnected"
        /\ uiStatus = "error"
        /\ parsed # NotParsed
        /\ rawError = SdkError

\* A connect() of the component whose live.connect rejected.
C25_Witness ==
    /\ lastCall.op = "connectCatch"
    /\ lastCall.statusBefore = "connecting"
    /\ hasClient
    /\ session = "null"
    /\ LiveSessions = 0

\* C27: after disconnect() no capture chunk is handed to the session's
\* sendRealtimeInput until startAudioStream() is called again.
C27_NoCaptureAfterDisconnect ==
    (lastCall.op = "ondataavailable" /\ "sendRealtimeInput" \in Trail)
        => captureAsked

\* C26: a startAudioStream() that fails shows the recoverable error
\* 'Microphone Access Denied' and leaves the status, the session and the
\* recording flag as they were.
C26_MicrophoneDenied ==
    [][(starting' < starting /\ lastCall'.op = "startAudioStream" /\ lastCall'.threw)
           => /\ parsed'.message = "Microphone Access Denied"
              /\ parsed'.recoverable
              /\ UNCHANGED <<uiStatus, status, session, others, isRecording,
                             mediaRecorder>>]_vars

\* The microphone was denied while the component was connected.
C26_Witness ==
    /\ lastCall.op = "startAudioStream"
    /\ lastCall.threw
    /\ parsed = MicrophoneError
    /\ uiStatus = "connected"
    /\ session = "open"
    /\ ~isRecording

\* C28: base64ToArrayBuffer(arrayBufferToBase64(b)) has the bytes of b, as
\* many as b has, for every byte sequence b, the empty one included.
C28_RoundTrip ==
    lastCall.op = "base64ToArrayBuffer"
        => /\ Len(decoded) = Len(buffer)
           /\ decoded = buffer

\* A buffer of two bytes with the high bit set went through both conversions:
\* its string ends in one '='.
C28_Witness ==
    /\ lastCall.op = "base64ToArrayBuffer"
    /\ buffer = <<128, 255>>
    /\ base64 = <<"g", "P", "8", "=">>
    /\ decoded = buffer

\* The chunks that were enqueued while drain loop l awaited the end of a buffer.
AppendedDuring(l) == {c \in 1..Len(chunkLog) : chunkLog[c].during = l}

\* The place of chunk c in the order of playback, 0 when it was not played.
PlayedAt(c) ==
    IF c \in {PlayedIds[i] : i \in 1..Len(played)}
    THEN CHOOSE i \in 1..Len(played) : PlayedIds[i] = c
    ELSE 0

TurnCompleteOverChunks ==
    /\ lastCall.op = "handleMessage"
    /\ frameEffects(lastCall.frame).drain
    /\ lastCall.queueBefore # <<>>

\* The drain is over: nothing is queued and isPlaying is reset.
Drained == audioQueue = <<>> /\ ~isPlaying

\* C30, as stated, its last clause: a chunk is played only when a
\* turnComplete frame came after it was enqueued.
C30_PlayedOnlyAfterTurnComplete ==
    \A i \in 1..Len(played) : chunkLog[PlayedIds[i]].turnAfter

\* C30, amended: when a turnComplete frame is processed while chunks are
\* queued and every started buffer signals its end, the drain ends with an
\* empty queue and isPlaying reset, and a chunk that left the queue was
\* played unless its playback throws; a chunk with no turnComplete
\* frame after it stays queued and unplayed unless a drain loop was awaiting
\* a buffer's end when it was enqueued.
C30_DrainTerminates ==
    /\ TurnCompleteOverChunks ~> Drained
    /\ [](\A c \in 1..Len(chunkLog) :
              /\ (c \notin Ids(audioQueue) /\ chunkLog[c].ok) => PlayedAt(c) # 0
              /\ (~chunkLog[c].turnAfter /\ chunkLog[c].during = 0)
                    => (c \in Ids(audioQueue) /\ PlayedAt(c) = 0))

\* Chunk 1 was queued when the turnComplete frame came, chunk 2 arrived while
\* loop 1 awaited the end of chunk 1 and no turnComplete frame came after it:
\* both were played and the drain is over.
C30_Witness ==
    /\ Drained
    /\ loops = <<0>>
    /\ played = << <<1, 1>>, <<2, 1>> >>
    /\ chunkLog[1].during = 0 /\ chunkLog[1].turnAfter
    /\ chunkLog[2].during = 1 /\ ~chunkLog[2].turnAfter

\* C31: after disconnect() the client hands no ChatMessage to its caller
\* until connect() is called again: whatever a handler emits, connect() was
\* called since the last disconnect().
C31_SilentAfterDisconnect ==
    lastCall.emitted # <<>> => connectAsked

\* C32: whenever the component's status is 'connected' it holds a client.
C32_ConnectedHoldsClient ==
    uiStatus = "connected" => hasClient

\* C33: of the clients the component has built at most one has an open
\* session, and while the component holds a client no session but that
\* client's is open.
C33_OneClientWired ==
    /\ OpenSessions <= 1
    /\ hasClient => others.open = 0

\* C36: when a session closes while the component's status is 'connected',
\* the component sets the error 'Connection Lost' and then the status
\* 'disconnected'.
C36_ConnectionLostIsSet ==
    [][(uiStatus = "connected" /\ lastCall'.op = "onclose")
           => (parsed' = ConnectionLost /\ uiStatus' = "disconnected")]_vars

C38_RetryCountIsZero == retryCount = 0

\* The Connect button was clicked while an error was shown: connect ran, not
\* retry.
C38_Witness ==
    /\ lastCall.op = "VoiceChat.connect"
    /\ "error" \in captured
    /\ retryCount = 0

\* C34: whenever the component's status is not 'connected', it is not
\* recording.
C34_NoCaptureUnlessConnected ==
    uiStatus # "connected" => ~isRecording

\* C35: a capture-chunk callback never calls sendRealtimeInput on a null
\* session: after its await the chunk is sent on the session or skipped.
C35_NoSendOnNullSession ==
    lastCall.op = "ondataavailable" => "TypeError" \notin Trail

\* C40: the chat history of the request/response client alternates between
\* user and model entries, starting with a user entry, whatever sendText()
\* calls were made, a failing request and two requests in flight included.
C40_HistoryAlternates ==
    \A i \in 1..Len(chatHistory) :
        chatHistory[i].role = IF i % 2 = 1 THEN "user" ELSE "model"

\* The frame handled in this step is a serverContent frame marked
\* interrupted.
InterruptedFrameHandled ==
    /\ lastCall'.op = "handleMessage"
    /\ lastCall'.frame.serverContent
    /\ ~lastCall'.frame.setupComplete
    /\ lastCall'.frame.interrupted

\* The frame handled in this step calls playQueuedAudio.
TurnCompleteFrameHandled ==
    /\ lastCall'.op = "handleMessage"
    /\ frameEffects(lastCall'.frame).drain

\* The chunks this step took from the queue.
Dequeued == Ids(audioQueue) \ Ids(audioQueue')

====
